---- MODULE Spec2Model ----
(***************************************************************************)
(* Fin-Tracker: the adaptive classification engine of the expense bot.     *)
(*                                                                         *)
(* Text is a sequence of Unicode code points (Python str), so that         *)
(* normalisation, tokenising and keyword matching are computed, not        *)
(* assumed.  Money is an integer number of hundredths, scores and          *)
(* confidences are integers in hundredths (0.35 is 35, 0.97 is 97).        *)
(***************************************************************************)
EXTENDS Integers, Sequences, FiniteSets, TLC

(***************************************************************************)
(* Characters                                                              *)
(***************************************************************************)
SP == 32

\* str.isspace / regex \s: the whitespace code points that the modelled
\* texts can hold
Whitespace == {9, 10, 11, 12, 13, 32, 160}

IsDigit(c) == c \in 48..57

\* str.lower on the Latin and Russian alphabets and on the Kelvin sign, whose
\* lower case is the letter k (other code points of the modelled texts have no
\* lower-case form)
Lower(c) ==
  IF c \in 65..90 THEN c + 32
  ELSE IF c \in 1040..1071 THEN c + 32
  ELSE IF c = 1025 THEN 1105
  ELSE IF c = 8490 THEN 107
  ELSE c

\* the class [a-zа-я0-9\s] under re.IGNORECASE: with the flag a-z also matches
\* the dotted capital I, the dotless i, the long s and the Kelvin sign
IsKept(c) ==
  \/ c \in 97..122 \/ c \in 65..90
  \/ c \in {304, 305, 383, 8490}
  \/ c \in 1072..1103 \/ c \in 1040..1071
  \/ c \in 48..57
  \/ c \in Whitespace

(***************************************************************************)
(* Sequence helpers (Python str methods)                                   *)
(***************************************************************************)
RECURSIVE LStrip(_, _)
LStrip(s, cs) == IF s # <<>> /\ Head(s) \in cs THEN LStrip(Tail(s), cs) ELSE s

RECURSIVE RStrip(_, _)
RStrip(s, cs) ==
  IF s # <<>> /\ s[Len(s)] \in cs THEN RStrip(SubSeq(s, 1, Len(s) - 1), cs) ELSE s

\* str.strip(chars)
Strip(s, cs) == RStrip(LStrip(s, cs), cs)

\* str.startswith
StartsWith(s, p) == Len(p) <= Len(s) /\ SubSeq(s, 1, Len(p)) = p

\* the `in` operator on str: p occurs in s as a contiguous substring
Contains(s, p) ==
  \E i \in 1..(Len(s) - Len(p) + 1) : SubSeq(s, i, i + Len(p) - 1) = p

\* str.replace(p, "") for a non-empty p: leftmost non-overlapping occurrences
RECURSIVE Remove(_, _)
Remove(s, p) ==
  IF s = <<>> THEN <<>>
  ELSE IF StartsWith(s, p) THEN Remove(SubSeq(s, Len(p) + 1, Len(s)), p)
  ELSE <<Head(s)>> \o Remove(Tail(s), p)

\* str.split(): maximal runs of non-whitespace
RECURSIVE SplitAcc(_, _, _)
SplitAcc(s, cur, acc) ==
  IF s = <<>> THEN (IF cur = <<>> THEN acc ELSE Append(acc, cur))
  ELSE IF Head(s) \in Whitespace
       THEN SplitAcc(Tail(s), <<>>, IF cur = <<>> THEN acc ELSE Append(acc, cur))
       ELSE SplitAcc(Tail(s), Append(cur, Head(s)), acc)

Split(s) == SplitAcc(s, <<>>, <<>>)

\* " ".join(tokens)
RECURSIVE Join(_)
Join(ts) ==
  IF ts = <<>> THEN <<>>
  ELSE IF Len(ts) = 1 THEN ts[1]
  ELSE ts[1] \o <<SP>> \o Join(Tail(ts))

LowerStr(s) == [i \in 1..Len(s) |-> Lower(s[i])]

\* re.sub(r"\s+", " ", s)
RECURSIVE CollapseSpaces(_)
CollapseSpaces(s) ==
  IF s = <<>> THEN <<>>
  ELSE IF Head(s) \in Whitespace
       THEN <<SP>> \o CollapseSpaces(LStrip(s, Whitespace))
       ELSE <<Head(s)>> \o CollapseSpaces(Tail(s))

(***************************************************************************)
(* classifier.normalize_text                                               *)
(***************************************************************************)
\* a variant of normalize_text that does not strip the text again after
\* the other characters have become spaces
normalize_text_no_final_strip(text) ==
  LET lowered == Strip(LowerStr(text), Whitespace)
      cleaned == [i \in 1..Len(lowered) |->
                    IF IsKept(lowered[i]) THEN lowered[i] ELSE SP]
  IN  CollapseSpaces(cleaned)

normalize_text(text) ==
  LET lowered == Strip(LowerStr(text), Whitespace)
      cleaned == [i \in 1..Len(lowered) |->
                    IF IsKept(lowered[i]) THEN lowered[i] ELSE SP]
  IN  Strip(CollapseSpaces(cleaned), Whitespace)

(***************************************************************************)
(* taxonomy.SUBCATEGORIES, in declaration order; keywords as code points   *)
(***************************************************************************)
SUBCATEGORIES ==
  <<
    [key |-> "food_out", category |-> "food",
     keywords |-> <<
           <<1082, 1086, 1092, 1077>>,
           <<1082, 1072, 1087, 1091, 1095, 1080, 1085, 1086>>,
           <<1083, 1072, 1090, 1090, 1077>>,
           <<1095, 1072, 1081>>,
           <<1086, 1073, 1077, 1076>>,
           <<1091, 1078, 1080, 1085>>,
           <<1079, 1072, 1074, 1090, 1088, 1072, 1082>>,
           <<1082, 1072, 1092, 1077>>,
           <<1088, 1077, 1089, 1090, 1086, 1088, 1072, 1085>>,
           <<1089, 1090, 1086, 1083, 1086, 1074, 1072, 1103>>,
           <<1092, 1072, 1089, 1090, 1092, 1091, 1076>>,
           <<1087, 1080, 1094, 1094, 1072>>,
           <<1073, 1091, 1088, 1075, 1077, 1088>>,
           <<1089, 1091, 1096, 1080>>,
           <<1096, 1072, 1091, 1088, 1084, 1072>> >>],
    [key |-> "food_groceries", category |-> "food",
     keywords |-> <<
           <<1087, 1088, 1086, 1076, 1091, 1082, 1090, 1099>>,
           <<1084, 1072, 1075, 1072, 1079, 1080, 1085>>,
           <<1089, 1091, 1087, 1077, 1088, 1084, 1072, 1088, 1082, 1077, 1090>>,
           <<1075, 1080, 1087, 1077, 1088, 1084, 1072, 1088, 1082, 1077, 1090>>,
           <<1077, 1076, 1072, 32, 1076, 1086, 1084, 1086, 1081>>,
           <<1086, 1074, 1086, 1097, 1080>>,
           <<1092, 1088, 1091, 1082, 1090, 1099>>,
           <<1084, 1086, 1083, 1086, 1082, 1086>>,
           <<1093, 1083, 1077, 1073>>,
           <<1084, 1103, 1089, 1086>>,
           <<1082, 1088, 1091, 1087, 1072>> >>],
    [key |-> "transport_taxi", category |-> "transport",
     keywords |-> <<
           <<1090, 1072, 1082, 1089, 1080>>,
           <<1087, 1086, 1077, 1079, 1076, 1082, 1072>>,
           <<1090, 1088, 1072, 1085, 1089, 1092, 1077, 1088>> >>],
    [key |-> "transport_public", category |-> "transport",
     keywords |-> <<
           <<1084, 1077, 1090, 1088, 1086>>,
           <<1072, 1074, 1090, 1086, 1073, 1091, 1089>>,
           <<1090, 1088, 1072, 1084, 1074, 1072, 1081>>,
           <<1101, 1083, 1077, 1082, 1090, 1088, 1080, 1095, 1082, 1072>>,
           <<1087, 1086, 1077, 1079, 1076>>,
           <<1087, 1088, 1086, 1077, 1079, 1076>> >>],
    [key |-> "transport_car", category |-> "transport",
     keywords |-> <<
           <<1073, 1077, 1085, 1079, 1080, 1085>>,
           <<1090, 1086, 1087, 1083, 1080, 1074, 1086>>,
           <<1079, 1072, 1087, 1088, 1072, 1074, 1082, 1072>>,
           <<1087, 1072, 1088, 1082, 1086, 1074, 1082, 1072>>,
           <<1096, 1080, 1085, 1086, 1084, 1086, 1085, 1090, 1072, 1078>>,
           <<1084, 1072, 1089, 1083, 1086>> >>],
    [key |-> "home_rent", category |-> "home",
     keywords |-> <<
           <<1072, 1088, 1077, 1085, 1076, 1072>>,
           <<1080, 1087, 1086, 1090, 1077, 1082, 1072>>,
           <<1082, 1074, 1072, 1088, 1090, 1080, 1088, 1072>>,
           <<1078, 1080, 1083, 1100, 1077>> >>],
    [key |-> "home_utilities", category |-> "home",
     keywords |-> <<
           <<1078, 1082, 1093>>,
           <<1082, 1086, 1084, 1084, 1091, 1085, 1072, 1083, 1082, 1072>>,
           <<1101, 1083, 1077, 1082, 1090, 1088, 1080, 1095, 1077, 1089, 1090, 1074, 1086>>,
           <<1074, 1086, 1076, 1072>>,
           <<1075, 1072, 1079>>,
           <<1080, 1085, 1090, 1077, 1088, 1085, 1077, 1090>> >>],
    [key |-> "health_medicine", category |-> "health",
     keywords |-> <<
           <<1072, 1087, 1090, 1077, 1082, 1072>>,
           <<1083, 1077, 1082, 1072, 1088, 1089, 1090, 1074, 1072>>,
           <<1090, 1072, 1073, 1083, 1077, 1090, 1082, 1080>>,
           <<1074, 1080, 1090, 1072, 1084, 1080, 1085, 1099>> >>],
    [key |-> "health_doctors", category |-> "health",
     keywords |-> <<
           <<1074, 1088, 1072, 1095>>,
           <<1082, 1083, 1080, 1085, 1080, 1082, 1072>>,
           <<1072, 1085, 1072, 1083, 1080, 1079, 1099>>,
           <<1089, 1090, 1086, 1084, 1072, 1090, 1086, 1083, 1086, 1075>>,
           <<1084, 1088, 1090>>,
           <<1091, 1079, 1080>> >>],
    [key |-> "fun_events", category |-> "fun",
     keywords |-> <<
           <<1082, 1080, 1085, 1086>>,
           <<1090, 1077, 1072, 1090, 1088>>,
           <<1082, 1086, 1085, 1094, 1077, 1088, 1090>>,
           <<1073, 1072, 1088>>,
           <<1082, 1083, 1091, 1073>>,
           <<1080, 1075, 1088, 1099>> >>],
    [key |-> "shopping_clothes", category |-> "shopping",
     keywords |-> <<
           <<1086, 1076, 1077, 1078, 1076, 1072>>,
           <<1086, 1073, 1091, 1074, 1100>>,
           <<1082, 1091, 1088, 1090, 1082, 1072>>,
           <<1076, 1078, 1080, 1085, 1089, 1099>>,
           <<1082, 1088, 1086, 1089, 1089, 1086, 1074, 1082, 1080>> >>],
    [key |-> "shopping_other", category |-> "shopping",
     keywords |-> <<
           <<1087, 1086, 1082, 1091, 1087, 1082, 1072>>,
           <<1090, 1086, 1074, 1072, 1088>>,
           <<1079, 1072, 1082, 1072, 1079>> >>],
    [key |-> "subscriptions_digital", category |-> "subscriptions",
     keywords |-> <<
           <<1087, 1086, 1076, 1087, 1080, 1089, 1082, 1072>>,
           <<1087, 1088, 1077, 1084, 1080, 1091, 1084>>,
           <<1084, 1091, 1079, 1099, 1082, 1072>>,
           <<1074, 1080, 1076, 1077, 1086>>,
           <<1086, 1073, 1083, 1072, 1082, 1086>> >>]
  >>

\* taxonomy.SUBCATEGORY_TO_CATEGORY
SubcategoryKeys == {SUBCATEGORIES[i].key : i \in 1..Len(SUBCATEGORIES)}

SUBCATEGORY_TO_CATEGORY ==
  [k \in SubcategoryKeys |->
     \* keys are pairwise distinct, so the choice is unique
     SUBCATEGORIES[CHOOSE i \in 1..Len(SUBCATEGORIES) : SUBCATEGORIES[i].key = k].category]

\* bot.BASE_CATEGORIES
BASE_CATEGORIES ==
  {"food", "transport", "home", "health", "fun", "shopping", "subscriptions", "other"}

(***************************************************************************)
(* classifier.predict_category                                             *)
(***************************************************************************)
\* `Prediction | None`: None is the record whose reason is "none"
NoPrediction == [category |-> "", subcategory |-> "", confidence |-> 0, reason |-> "none"]

\* a variant of the score that gives a leading keyword no more than any other
KeywordScore_no_bonus(normalized, word) == IF Contains(normalized, word) THEN 100 ELSE 0

\* a variant of the score that gives the bonus only to a keyword that is the whole note
KeywordScore_exact_only(normalized, word) ==
  IF Contains(normalized, word)
  THEN 100 + (IF normalized = word THEN 35 ELSE 0)
  ELSE 0

\* the contribution of one keyword to its subcategory's score, in hundredths
KeywordScore(normalized, word) ==
  IF Contains(normalized, word)
  THEN 100 + (IF normalized = word \/ StartsWith(normalized, word \o <<SP>>) THEN 35 ELSE 0)
  ELSE 0

RECURSIVE SumKeywords(_, _)
SumKeywords(normalized, words) ==
  IF words = <<>> THEN 0
  ELSE KeywordScore(normalized, Head(words)) + SumKeywords(normalized, Tail(words))

\* score.items(): the subcategories that matched, in insertion order, which
\* is the taxonomy's declaration order
ScoreItems(normalized) ==
  LET all == [i \in 1..Len(SUBCATEGORIES) |->
                [key |-> SUBCATEGORIES[i].key,
                 score |-> SumKeywords(normalized, SUBCATEGORIES[i].keywords)]]
  IN  SelectSeq(all, LAMBDA it : it.score > 0)

\* a variant of the sort that is not stable: an item goes before its equals
RECURSIVE InsertRanked_unstable(_, _)
InsertRanked_unstable(ranked, it) ==
  IF ranked = <<>> THEN <<it>>
  ELSE IF Head(ranked).score > it.score
       THEN <<Head(ranked)>> \o InsertRanked_unstable(Tail(ranked), it)
       ELSE <<it>> \o ranked

\* sorted(items, key=score, reverse=True): stable, equal scores keep their order
RECURSIVE InsertRanked(_, _)
InsertRanked(ranked, it) ==
  IF ranked = <<>> THEN <<it>>
  ELSE IF Head(ranked).score >= it.score
       THEN <<Head(ranked)>> \o InsertRanked(Tail(ranked), it)
       ELSE <<it>> \o ranked

RECURSIVE Ranked(_)
Ranked(items) ==
  IF items = <<>> THEN <<>>
  ELSE InsertRanked(Ranked(SubSeq(items, 1, Len(items) - 1)), items[Len(items)])

\* a variant that takes off the runner-up's score at the weight of the best one
Confidence_full_penalty(best_score, second_score) ==
  LET raw == 5500 + best_score * 12 - second_score * 12
      capped == IF raw > 9800 THEN 9800 ELSE raw
      floored == IF capped < 2000 THEN 2000 ELSE capped
      q == floored \div 100
      r == floored % 100
  IN  IF r > 50 \/ (r = 50 /\ q % 2 = 1) THEN q + 1 ELSE q

\* a variant of the confidence that is rounded but not clamped
Confidence_unclamped(best_score, second_score) ==
  LET raw == 5500 + best_score * 12 - second_score * 7
      q == raw \div 100
      r == raw % 100
  IN  IF r > 50 \/ (r = 50 /\ q % 2 = 1) THEN q + 1 ELSE q

\* min(0.98, 0.55 + best*0.12 - second*0.07), then max(0.2, .), then round(., 2);
\* scores in hundredths, the intermediate values in ten-thousandths, and
\* round to the nearest hundredth with ties to even
Confidence(best_score, second_score) ==
  LET raw == 5500 + best_score * 12 - second_score * 7
      capped == IF raw > 9800 THEN 9800 ELSE raw
      floored == IF capped < 2000 THEN 2000 ELSE capped
      q == floored \div 100
      r == floored % 100
  IN  IF r > 50 \/ (r = 50 /\ q % 2 = 1) THEN q + 1 ELSE q

RulesPrediction(normalized) ==
  LET ranked == Ranked(ScoreItems(normalized))
      second_score == IF Len(ranked) > 1 THEN ranked[2].score ELSE 0
  IN  IF ranked = <<>> THEN NoPrediction
      ELSE [category |-> SUBCATEGORY_TO_CATEGORY[ranked[1].key],
            subcategory |-> ranked[1].key,
            confidence |-> Confidence(ranked[1].score, second_score),
            reason |-> "rules"]

\* a variant of the classifier that scores keywords first and ignores the alias
predict_category_keywords_only(note, alias_subcategory) ==
  LET normalized == normalize_text(note)
  IN  IF normalized = <<>> THEN NoPrediction ELSE RulesPrediction(normalized)

\* a variant of the classifier that answers with the alias before it looks at the note
predict_category_alias_first(note, alias_subcategory) ==
  LET normalized == normalize_text(note)
  IN  IF alias_subcategory # "" /\ alias_subcategory \in SubcategoryKeys
      THEN [category |-> SUBCATEGORY_TO_CATEGORY[alias_subcategory],
            subcategory |-> alias_subcategory,
            confidence |-> 97,
            reason |-> "alias"]
      ELSE IF normalized = <<>> THEN NoPrediction
      ELSE RulesPrediction(normalized)

\* a variant of the classifier that trusts whatever the alias lookup returned
predict_category_trusts_alias(note, alias_subcategory) ==
  LET normalized == normalize_text(note)
  IN  IF normalized = <<>> THEN NoPrediction
      ELSE IF alias_subcategory # ""
      THEN [category |-> IF alias_subcategory \in SubcategoryKeys
                         THEN SUBCATEGORY_TO_CATEGORY[alias_subcategory] ELSE "",
            subcategory |-> alias_subcategory,
            confidence |-> 97,
            reason |-> "alias"]
      ELSE RulesPrediction(normalized)

\* alias_subcategory is "" when get_alias_subcategory returned None
predict_category(note, alias_subcategory) ==
  LET normalized == normalize_text(note)
  IN  IF normalized = <<>> THEN NoPrediction
      ELSE IF alias_subcategory # "" /\ alias_subcategory \in SubcategoryKeys
      THEN [category |-> SUBCATEGORY_TO_CATEGORY[alias_subcategory],
            subcategory |-> alias_subcategory,
            confidence |-> 97,
            reason |-> "alias"]
      ELSE RulesPrediction(normalized)

(***************************************************************************)
(* categories.CATEGORY_ALIASES and categories.parse_category               *)
(***************************************************************************)
CATEGORY_ALIASES ==
  {
     [alias |-> <<1077, 1076, 1072>>, category |-> "food"],
     [alias |-> <<102, 111, 111, 100>>, category |-> "food"],
     [alias |-> <<116, 114, 97, 110, 115, 112, 111, 114, 116>>, category |-> "transport"],
     [alias |-> <<1090, 1088, 1072, 1085, 1089, 1087, 1086, 1088, 1090>>, category |-> "transport"],
     [alias |-> <<1076, 1086, 1084>>, category |-> "home"],
     [alias |-> <<104, 111, 109, 101>>, category |-> "home"],
     [alias |-> <<1079, 1076, 1086, 1088, 1086, 1074, 1100, 1077>>, category |-> "health"],
     [alias |-> <<104, 101, 97, 108, 116, 104>>, category |-> "health"],
     [alias |-> <<1088, 1072, 1079, 1074, 1083, 1077, 1095, 1077, 1085, 1080, 1103>>, category |-> "fun"],
     [alias |-> <<102, 117, 110>>, category |-> "fun"],
     [alias |-> <<1087, 1086, 1082, 1091, 1087, 1082, 1080>>, category |-> "shopping"],
     [alias |-> <<115, 104, 111, 112, 112, 105, 110, 103>>, category |-> "shopping"],
     [alias |-> <<1087, 1086, 1076, 1087, 1080, 1089, 1082, 1080>>, category |-> "subscriptions"],
     [alias |-> <<115, 117, 98, 115, 99, 114, 105, 112, 116, 105, 111, 110, 115>>, category |-> "subscriptions"],
     [alias |-> <<1076, 1088, 1091, 1075, 1086, 1077>>, category |-> "other"],
     [alias |-> <<111, 116, 104, 101, 114>>, category |-> "other"]
  }

\* CATEGORY_ALIASES.get(raw.strip().lower()); "" stands for None
parse_category(raw) ==
  LET key == LowerStr(Strip(raw, Whitespace))
      hits == {a \in CATEGORY_ALIASES : a.alias = key}
  IN  IF raw = <<>> \/ hits = {} THEN "" ELSE (CHOOSE a \in hits : TRUE).category

(***************************************************************************)
(* bot.parse_amount, bot.parse_amount_token, bot.extract_expense_parts     *)
(***************************************************************************)
\* amounts are hundredths; 0 stands for None (a parsed amount is > 0)
NoAmount == 0

AllDigits(s) == s # <<>> /\ \A i \in 1..Len(s) : IsDigit(s[i])

RECURSIVE DigitsValue(_)
DigitsValue(s) ==
  IF s = <<>> THEN 0 ELSE DigitsValue(SubSeq(s, 1, Len(s) - 1)) * 10 + (s[Len(s)] - 48)

\* AMOUNT_RE = ^\d+(?:[\.,]\d{1,2})?$
AMOUNT_RE(s) ==
  \/ AllDigits(s)
  \/ \E i \in 2..(Len(s) - 1) :
       /\ s[i] \in {44, 46}
       /\ AllDigits(SubSeq(s, 1, i - 1))
       /\ AllDigits(SubSeq(s, i + 1, Len(s)))
       /\ Len(s) - i \in {1, 2}

\* Decimal(raw.replace(",", ".")) of a string that matches AMOUNT_RE, in hundredths
DecimalValue(s) ==
  IF AllDigits(s) THEN DigitsValue(s) * 100
  ELSE LET i == CHOOSE j \in 2..(Len(s) - 1) : s[j] \in {44, 46}
           frac == SubSeq(s, i + 1, Len(s))
       IN  DigitsValue(SubSeq(s, 1, i - 1)) * 100
             + (IF Len(frac) = 1 THEN DigitsValue(frac) * 10 ELSE DigitsValue(frac))

parse_amount(raw) ==
  LET value == DecimalValue(Strip(raw, Whitespace))
  IN  IF value <= 0 THEN NoAmount ELSE value

\* the characters of ".,:;!?()[]{}"
TokenPunctuation == {46, 44, 58, 59, 33, 63, 40, 41, 91, 93, 123, 125}

parse_amount_token(token) ==
  LET t0 == LowerStr(Strip(token, Whitespace))
      t1 == Remove(Remove(Remove(t0, <<8381>>), <<114, 117, 98>>), <<114, 117, 114>>)
      t2 == Remove(Remove(t1, <<36>>), <<117, 115, 100>>)
      t3 == Remove(Remove(t2, <<8364>>), <<101, 117, 114>>)
      cleaned == Strip(t3, TokenPunctuation)
  IN  IF cleaned = <<>> \/ ~AMOUNT_RE(cleaned) THEN NoAmount ELSE parse_amount(cleaned)

\* the result None of extract_expense_parts
NoParse == [ok |-> FALSE, amount |-> NoAmount, quick_category |-> "", note |-> <<>>]

extract_expense_parts(text) ==
  LET tokens == Split(text)
      hits == {i \in 1..Len(tokens) : parse_amount_token(tokens[i]) # NoAmount}
  IN  IF hits = {} THEN NoParse
      ELSE LET amount_idx == CHOOSE i \in hits : \A j \in hits : i <= j
               rest_tokens == SubSeq(tokens, 1, amount_idx - 1)
                                \o SubSeq(tokens, amount_idx + 1, Len(tokens))
               quick_category ==
                 IF rest_tokens = <<>> THEN "" ELSE parse_category(rest_tokens[1])
           IN  [ok |-> TRUE,
                amount |-> parse_amount_token(tokens[amount_idx]),
                quick_category |-> quick_category,
                note |-> IF quick_category # ""
                         THEN Strip(Join(Tail(rest_tokens)), Whitespace)
                         ELSE Strip(Join(rest_tokens), Whitespace)]

(***************************************************************************)
(* config.load_settings: AUTO_CATEGORY_THRESHOLD, clamped to [0, 1]        *)
(***************************************************************************)
load_threshold(raw_threshold) ==
  IF raw_threshold < 0 THEN 0 ELSE IF raw_threshold > 100 THEN 100 ELSE raw_threshold

(***************************************************************************)
(* Bounds and input domains                                                *)
(***************************************************************************)
\* updates received in a run of the bot: expense messages, pending rows opened,
\* button presses; any number of the button presses may be in flight at once
MaxUpdates == 3
\* messages in a run of the routing gate, and feedback calls before them
MaxGateMessages == 2

\* the most messages of the run that compares the thresholds
MaxThresholdMessages == 1
MaxGateFeedback == 3
\* record_feedback calls in a run of the learner
MaxFeedback == 5
\* record_feedback calls on one (group, text) in a run of the ratchet
MaxRatchetFeedback == 15
\* concurrent record_feedback calls in a run of the race
MaxCalls == 3
\* a run of all the operations: updates, and record_feedback calls before them
MaxOps == 3
MaxOpsFeedback == 3
\* commands and messages in a run of the reminder worker
MaxReminderOps == 3
\* the longest text given to a direct call of normalize_text
MaxTextLen == 4
\* the most fragments joined into the note of a direct call of predict_category
MaxNoteParts == 2

Groups == {1, 2}
BotGroups == {1}
Users == {1, 2}
Tasks == 1..MaxUpdates
UndoTasks == {1, 2}
FeedbackTasks == 1..MaxCalls

\* raw message texts
Text_450_kofe == <<52, 53, 48, 32, 1082, 1086, 1092, 1077>>            \* "450 кофе"
Text_450 == <<52, 53, 48>>                                            \* "450"
Text_450_eda_kofe ==
  <<52, 53, 48, 32, 1077, 1076, 1072, 32, 1082, 1086, 1092, 1077>>    \* "450 еда кофе"
Text_450_eda == <<52, 53, 48, 32, 1077, 1076, 1072>>                  \* "450 еда"
Text_kofe == <<1082, 1086, 1092, 1077>>                               \* "кофе"
Text_99_5_bangs == <<57, 57, 44, 53, 32, 33, 33, 33>>                 \* "99,5 !!!"
Text_450_kofe_kafe ==
  <<52, 53, 48, 32, 1082, 1086, 1092, 1077, 32, 1082, 1072, 1092, 1077>>  \* "450 кофе кафе"
Text_450_xyz == <<52, 53, 48, 32, 120, 121, 122>>                     \* "450 xyz"

\* the messages of the bot runs and of the gate runs
Texts == {Text_450_kofe, Text_450, Text_450_eda_kofe, Text_kofe, Text_450_kofe_kafe}
GateTexts ==
  {Text_450_kofe, Text_450, Text_450_eda, Text_kofe, Text_99_5_bangs,
   Text_450_kofe_kafe, Text_450_xyz, Text_450_eda_kofe}
GateUsers == {1}

\* notes of pending rows
Note_kofe == <<1082, 1086, 1092, 1077>>                               \* "кофе"
Note_bangs == <<33, 33, 33>>                                          \* "!!!"
PendingNotes == {Note_kofe, Note_bangs}
PendingAmounts == {45000}

\* (predicted_category, predicted_subcategory, predicted_confidence) of pending rows
PendingPredictions ==
  { [category |-> "food", subcategory |-> "food_out", confidence |-> 71],
    [category |-> "", subcategory |-> "", confidence |-> 0] }

\* the buttons pressed: callback data cat:<pending_id>:<key>
Choices == {"food", "other", "bogus"}

\* direct calls of record_feedback: normalized texts and subcategories
FeedbackTexts == {Note_kofe, <<>>}
FeedbackSubcategories == {"food_out", "transport_taxi"}
GateFeedbackSubcategories == {"transport_taxi"}

\* the run of all the operations: its messages, its record_feedback calls, the
\* notes of its pending rows
OpsTexts == {Text_450_kofe}
OpsFeedbackTexts == {Note_kofe}
OpsFeedbackSubcategories == {"food_out"}
OpsPendingNotes == {Note_kofe}

\* direct calls of normalize_text: every text of at most MaxTextLen characters
\* over a lower-case and an upper-case letter, a digit, a space, a tab, a
\* punctuation mark, the capital IO and the Kelvin sign
NormalizeAlphabet == {1082, 1050, 52, 32, 9, 33, 1025, 8490}
NormalizeInputs == UNION {[1..n -> NormalizeAlphabet] : n \in 0..MaxTextLen}

\* direct calls of predict_category: the notes are at most MaxNoteParts of
\* these fragments joined by spaces, the aliases none, a taxonomy key, a key
\* that is not in the taxonomy
Fragment_taksi == <<1090, 1072, 1082, 1089, 1080>>                     \* "такси"
Fragment_i_kruassan ==
  <<1080, 32, 1082, 1088, 1091, 1072, 1089, 1089, 1072, 1085>>        \* "и круассан"
Fragment_poezdka == <<1087, 1086, 1077, 1079, 1076, 1082, 1072>>       \* "поездка"
Fragment_chai_kafe_obed ==
  <<1095, 1072, 1081, 32, 1082, 1072, 1092, 1077, 32, 1086, 1073, 1077, 1076>>  \* "чай кафе обед"
Fragment_Metro == <<1052, 1077, 1090, 1088, 1086, 33>>                 \* "Метро!"
PredictFragments ==
  {Fragment_taksi, Note_kofe, Fragment_i_kruassan, Fragment_poezdka,
   Fragment_chai_kafe_obed, Fragment_Metro}
PredictNotes ==
  {Join(parts) : parts \in UNION {[1..n -> PredictFragments] : n \in 0..MaxNoteParts}}
PredictAliases == {"", "food_out", "bogus"}

\* the clock, in minutes since 00:00 UTC of the first day of the run: 13:00 in
\* Europe/Moscow, then 22:00 the same day, then 04:00 the next day
StartOfRun == 600
ClockTimes == {600, 1140, 1500}

\* the clock of the run of the reminder settings: also 01:00 of the next day in
\* Europe/Moscow, which is 22:00 of the first day in UTC
ReminderClockTimes == ClockTimes \cup {1320}
MinutesPerDay == 1440

\* ZoneInfo: the offset of a timezone from UTC, in minutes
TimezoneNames == {"Europe/Moscow", "UTC"}
UtcOffset == [tz \in TimezoneNames |-> IF tz = "Europe/Moscow" THEN 180 ELSE 0]

\* the reminder times that the runs choose: 01:00 by /remind, 21:00 of the
\* settings keyboard
ReminderTimes == {60, 1260}

\* group_settings defaults: timezone 'Europe/Moscow', reminder_time '21:00' as
\* minutes of the day, last_reminder_date '' as NoDate
DefaultTimezone == "Europe/Moscow"
DefaultReminderTime == 1260
NoDate == -1

\* AUTO_CATEGORY_THRESHOLD as configured, before clamping (hundredths)
DefaultRawThreshold == 82
GateRawThresholds == {-5, 83, 150}

\* The pure functions on the texts of the model, evaluated once
AllTexts == Texts \cup GateTexts
Parsed == [t \in AllTexts |-> extract_expense_parts(t)]
AllNotes == {Parsed[t].note : t \in AllTexts} \cup PendingNotes
Normalized == [n \in AllNotes |-> normalize_text(n)]
AliasValues == SubcategoryKeys \cup {"", "bogus"}
Predicted == [n \in AllNotes, a \in AliasValues |-> predict_category(n, a)]

(***************************************************************************)
(* State: the tables of db.Database, the settings, the running callbacks   *)
(***************************************************************************)
VARIABLES
  expenses,                \* table expenses
  pending_expenses,        \* table pending_expenses
  category_feedback,       \* table category_feedback, in insertion order
  merchant_aliases,        \* table merchant_aliases
  expense_seq,             \* sqlite_sequence of expenses: the last id given
  pending_seq,             \* sqlite_sequence of pending_expenses
  auto_category_threshold, \* Settings.auto_category_threshold
  update_seq,              \* updates received so far
  tasks,                   \* the on_category_chosen coroutines, in order of arrival
  finalized,               \* history: (pending id, expense id) of every finalize insert
  group_settings,          \* table group_settings
  now_utc,                 \* datetime.now(timezone.utc), in minutes
  due_groups,              \* reminder_worker: the due groups still to be reminded
  sent_reminders,          \* history: (group, local date) of every reminder sent
  failed_reminders,        \* history: (group, local date) of the sends that raised
  undo_tasks,              \* the undo_last_by_user calls, in order of arrival
  feedback_tasks,          \* the record_feedback calls that run statement by statement
  write_lock,              \* the connection whose transaction holds SQLite's write lock
  call_pc,                 \* a call of a classifier function: where it stands
  call_text,               \* its argument text (note)
  call_alias,              \* its argument alias_subcategory
  call_normalized,         \* the value normalize_text returned
  call_prediction          \* the value predict_category returned

vars == <<expenses, pending_expenses, category_feedback, merchant_aliases,
          expense_seq, pending_seq, auto_category_threshold, update_seq, tasks,
          finalized, group_settings, now_utc, due_groups, sent_reminders,
          failed_reminders, undo_tasks, feedback_tasks, write_lock, call_pc,
          call_text, call_alias, call_normalized, call_prediction>>

db == <<expenses, pending_expenses, category_feedback, merchant_aliases,
        expense_seq, pending_seq>>

\* the reminder state: the settings rows, the clock, the worker's list and what
\* became of its sends
reminders == <<group_settings, now_utc, due_groups, sent_reminders, failed_reminders>>

\* an undo_last_by_user call that has not started
IdleUndo == [pc |-> "idle", group_id |-> 0, user_id |-> 0, expense_id |-> 0]

\* a record_feedback call that has not started
IdleFeedback ==
  [pc |-> "idle", group_id |-> 0, raw_comment_normalized |-> <<>>,
   predicted_subcategory |-> "", chosen_subcategory |-> "", total |-> 0,
   chosen_total |-> 0, promotes |-> FALSE]

\* the calls in flight of the database methods that are modelled statement by statement
calls == <<undo_tasks, feedback_tasks, write_lock>>

\* a direct call of normalize_text or predict_category
classifier == <<call_pc, call_text, call_alias, call_normalized, call_prediction>>

\* get_pending returned None
NoPending ==
  [id |-> 0, group_id |-> 0, user_id |-> 0, amount |-> 0, note |-> <<>>,
   predicted_category |-> "", predicted_subcategory |-> "",
   predicted_confidence |-> 0, raw_comment_normalized |-> <<>>]

IdleTask ==
  [pc |-> "idle", pending_id |-> 0, category |-> "", from_user |-> 0,
   pending |-> NoPending, chosen_subcategory |-> "", expense_id |-> 0, answer |-> ""]

\* no direct call of the classifier's functions
NoClassifierCall ==
  /\ call_pc = "idle"
  /\ call_text = <<>>
  /\ call_alias = ""
  /\ call_normalized = <<>>
  /\ call_prediction = NoPrediction

\* the empty database, no row of settings, no call running
EmptyDatabase(raw_thresholds) ==
  /\ expenses = {}
  /\ pending_expenses = {}
  /\ category_feedback = <<>>
  /\ merchant_aliases = {}
  /\ expense_seq = 0
  /\ pending_seq = 0
  /\ auto_category_threshold \in {load_threshold(r) : r \in raw_thresholds}
  /\ update_seq = 0
  /\ tasks = [t \in Tasks |-> IdleTask]
  /\ finalized = {}
  /\ group_settings = {}
  /\ now_utc = StartOfRun
  /\ due_groups = <<>>
  /\ sent_reminders = <<>>
  /\ failed_reminders = {}
  /\ undo_tasks = [k \in UndoTasks |-> IdleUndo]
  /\ feedback_tasks = [k \in FeedbackTasks |-> IdleFeedback]
  /\ write_lock = 0

\* the empty database, the given threshold, no callback running
InitWith(raw_thresholds) == EmptyDatabase(raw_thresholds) /\ NoClassifierCall

Init == InitWith({DefaultRawThreshold})

(***************************************************************************)
(* db.Database                                                             *)
(***************************************************************************)
\* a variant that looks the empty note up like any other
get_alias_subcategory_scans_table(aliases, group_id, normalized_note) ==
  LET rows == {a \in aliases :
                 a.group_id = group_id /\ a.normalized_pattern = normalized_note}
  IN  IF rows = {} THEN ""
      ELSE (CHOOSE a \in rows : TRUE).subcategory

\* a variant of the lookup that matches the pattern in any group
get_alias_subcategory_any_group(aliases, group_id, normalized_note) ==
  LET rows == {a \in aliases : a.normalized_pattern = normalized_note}
  IN  IF normalized_note = <<>> \/ rows = {} THEN ""
      ELSE (CHOOSE a \in rows : TRUE).subcategory

\* Database.get_alias_subcategory; "" stands for None
get_alias_subcategory(aliases, group_id, normalized_note) ==
  LET rows == {a \in aliases :
                 a.group_id = group_id /\ a.normalized_pattern = normalized_note}
  IN  IF normalized_note = <<>> \/ rows = {} THEN ""
      ELSE (CHOOSE a \in rows : TRUE).subcategory

\* Database.get_pending
get_pending(pendings, pending_id) ==
  LET rows == {p \in pendings : p.id = pending_id}
  IN  IF rows = {} THEN NoPending ELSE CHOOSE p \in rows : TRUE

\* Database.ensure_group: the row with the column defaults unless the group has one
ensure_group(settings, group_id) ==
  IF \E r \in settings : r.group_id = group_id THEN settings
  ELSE settings \cup
         {[group_id |-> group_id, timezone |-> DefaultTimezone,
           reminder_enabled |-> TRUE, reminder_time |-> DefaultReminderTime,
           last_reminder_date |-> NoDate]}

\* now_utc.astimezone(tz): the local date as a day number, the local (hour, minute)
\* as minutes of the day
LocalDate(now, tz_name) == (now + UtcOffset[tz_name]) \div MinutesPerDay
LocalMinute(now, tz_name) == (now + UtcOffset[tz_name]) % MinutesPerDay

\* Database._has_expenses_on_local_date
has_expenses_on_local_date(rows, group_id, tz_name, local_day) ==
  LET start_utc == local_day * MinutesPerDay - UtcOffset[tz_name]
      end_utc == start_utc + MinutesPerDay
  IN  \E e \in rows :
        e.group_id = group_id /\ e.spent_at >= start_utc /\ e.spent_at < end_utc

\* a variant of the candidates that does not look at reminder_enabled
ReminderCandidates_ignores_enabled(settings, now) ==
  {r \in settings :
     /\ r.last_reminder_date # LocalDate(now, r.timezone)
     /\ LocalMinute(now, r.timezone) >= r.reminder_time}

\* Database.list_groups_due_for_reminder, lines 326-356: the enabled groups not
\* yet marked today whose reminder time has come
ReminderCandidates(settings, now) ==
  {r \in settings :
     /\ r.reminder_enabled
     /\ r.last_reminder_date # LocalDate(now, r.timezone)
     /\ LocalMinute(now, r.timezone) >= r.reminder_time}

\* Database.mark_group_reminded, and the UPDATE of lines 359-365
mark_group_reminded(settings, group_id, local_date) ==
  {IF r.group_id = group_id THEN [r EXCEPT !.last_reminder_date = local_date] ELSE r :
     r \in settings}

\* the sequence of the elements of a set of group ids, in ascending order
RECURSIVE Ascending(_)
Ascending(ids) ==
  IF ids = {} THEN <<>>
  ELSE LET least == CHOOSE i \in ids : \A j \in ids : i <= j
       IN  <<least>> \o Ascending(ids \ {least})

\* the row that Database.add_expense and Database.finalize_pending insert
ExpenseRow(id, group_id, user_id, category, subcategory, amount, note, auto_category, auto_subcategory, auto_confidence, is_auto_applied, raw_comment_normalized) ==
  [id |-> id, group_id |-> group_id, user_id |-> user_id, category |-> category,
   subcategory |-> subcategory, amount |-> amount, note |-> note,
   auto_category |-> auto_category, auto_subcategory |-> auto_subcategory,
   auto_confidence |-> auto_confidence, is_auto_applied |-> is_auto_applied,
   raw_comment_normalized |-> raw_comment_normalized, spent_at |-> now_utc]

\* Database.record_feedback, the WHERE of lines 557-558: the feedback events of
\* (group, text) in a log, by position
EventsOf(log, group_id, text) ==
  {i \in 1..Len(log) :
     log[i].group_id = group_id /\ log[i].raw_comment_normalized = text}

\* a variant of the promotion test that drops the share of agreeing events
Promotes_any_three(total, chosen_total) == total >= 3

\* Database.record_feedback: total >= 3 and chosen_total / total >= 0.8
Promotes(total, chosen_total) == total >= 3 /\ chosen_total * 10 >= total * 8

\* Database.record_feedback: the feedback log after the call
FeedbackAfter(feedback, group_id, raw_comment_normalized, predicted_subcategory, chosen_subcategory) ==
  IF raw_comment_normalized = <<>> THEN feedback
  ELSE Append(feedback,
              [group_id |-> group_id,
               raw_comment_normalized |-> raw_comment_normalized,
               predicted_subcategory |-> predicted_subcategory,
               chosen_subcategory |-> chosen_subcategory])

\* a variant of record_feedback that counts the events before its own insert
AliasesAfter_counts_before_insert(feedback, aliases, group_id, raw_comment_normalized, predicted_subcategory, chosen_subcategory) ==
  LET same == {i \in 1..Len(feedback) :
                 /\ feedback[i].group_id = group_id
                 /\ feedback[i].raw_comment_normalized = raw_comment_normalized}
      total == Cardinality(same)
      chosen_total ==
        Cardinality({i \in same : feedback[i].chosen_subcategory = chosen_subcategory})
  IN  IF raw_comment_normalized = <<>> THEN aliases
      ELSE IF Promotes(total, chosen_total)
      THEN {a \in aliases :
              ~(a.group_id = group_id /\ a.normalized_pattern = raw_comment_normalized)}
           \cup {[group_id |-> group_id,
                  normalized_pattern |-> raw_comment_normalized,
                  subcategory |-> chosen_subcategory,
                  confidence |-> 97,
                  source |-> "feedback"]}
      ELSE aliases

\* a variant of the upsert that leaves an existing alias as it is
AliasesAfter_keeps_first(feedback, aliases, group_id, raw_comment_normalized, predicted_subcategory, chosen_subcategory) ==
  LET log == FeedbackAfter(feedback, group_id, raw_comment_normalized,
                           predicted_subcategory, chosen_subcategory)
      same == {i \in 1..Len(log) :
                 /\ log[i].group_id = group_id
                 /\ log[i].raw_comment_normalized = raw_comment_normalized}
      total == Cardinality(same)
      chosen_total ==
        Cardinality({i \in same : log[i].chosen_subcategory = chosen_subcategory})
  IN  IF raw_comment_normalized = <<>> THEN aliases
      ELSE IF /\ Promotes(total, chosen_total)
              /\ ~\E a \in aliases :
                    a.group_id = group_id /\ a.normalized_pattern = raw_comment_normalized
      THEN aliases \cup {[group_id |-> group_id,
                          normalized_pattern |-> raw_comment_normalized,
                          subcategory |-> chosen_subcategory,
                          confidence |-> 97,
                          source |-> "feedback"]}
      ELSE aliases

\* Database.record_feedback: the alias table after the call
AliasesAfter(feedback, aliases, group_id, raw_comment_normalized, predicted_subcategory, chosen_subcategory) ==
  LET log == FeedbackAfter(feedback, group_id, raw_comment_normalized,
                           predicted_subcategory, chosen_subcategory)
      same == {i \in 1..Len(log) :
                 /\ log[i].group_id = group_id
                 /\ log[i].raw_comment_normalized = raw_comment_normalized}
      total == Cardinality(same)
      chosen_total ==
        Cardinality({i \in same : log[i].chosen_subcategory = chosen_subcategory})
  IN  IF raw_comment_normalized = <<>> THEN aliases
      ELSE IF Promotes(total, chosen_total)
      THEN {a \in aliases :
              ~(a.group_id = group_id /\ a.normalized_pattern = raw_comment_normalized)}
           \cup {[group_id |-> group_id,
                  normalized_pattern |-> raw_comment_normalized,
                  subcategory |-> chosen_subcategory,
                  confidence |-> 97,
                  source |-> "feedback"]}
      ELSE aliases

\* Database.record_feedback: one connection, one transaction
record_feedback(group_id, raw_comment_normalized, predicted_subcategory, chosen_subcategory) ==
  /\ category_feedback' =
       FeedbackAfter(category_feedback, group_id, raw_comment_normalized,
                     predicted_subcategory, chosen_subcategory)
  /\ merchant_aliases' =
       AliasesAfter(category_feedback, merchant_aliases, group_id,
                    raw_comment_normalized, predicted_subcategory, chosen_subcategory)

\* Database.create_pending_expense
CreatePendingExpense(group_id, user_id, amount, note, prediction, raw_comment_normalized) ==
  /\ update_seq' = update_seq + 1
  /\ pending_seq' = pending_seq + 1
  /\ pending_expenses' = pending_expenses \cup
       {[id |-> pending_seq + 1, group_id |-> group_id, user_id |-> user_id,
         amount |-> amount, note |-> note,
         predicted_category |-> prediction.category,
         predicted_subcategory |-> prediction.subcategory,
         predicted_confidence |-> prediction.confidence,
         raw_comment_normalized |-> raw_comment_normalized]}
  /\ UNCHANGED <<expenses, category_feedback, merchant_aliases, expense_seq,
                 auto_category_threshold, classifier, tasks, finalized, reminders,
                 calls>>

\* a call of Database.record_feedback on its own
RecordFeedbackCall(group_id, raw_comment_normalized, predicted_subcategory, chosen_subcategory) ==
  /\ record_feedback(group_id, raw_comment_normalized, predicted_subcategory,
                     chosen_subcategory)
  /\ UNCHANGED <<expenses, pending_expenses, expense_seq, pending_seq,
                 auto_category_threshold, classifier, update_seq, tasks, finalized,
                 reminders,
                 calls>>

(***************************************************************************)
(* bot.process_expense_text                                                *)
(***************************************************************************)
\* lines 188-191: no prediction without a note, else the classifier on the
\* note and the group's alias for the normalized note
MessagePrediction(aliases, group_id, note) ==
  IF note = <<>> THEN NoPrediction
  ELSE Predicted[note, get_alias_subcategory(aliases, group_id, Normalized[note])]

\* a variant of the inserted row that keeps no audit of the prediction
MessageExpense_no_audit(id, threshold, group_id, user_id, parsed, normalized_note, prediction) ==
  ExpenseRow(id, group_id, user_id,
             IF parsed.quick_category # "" THEN parsed.quick_category
             ELSE IF prediction # NoPrediction THEN prediction.category ELSE "other",
             IF parsed.quick_category # "" \/ prediction = NoPrediction THEN ""
             ELSE prediction.subcategory,
             parsed.amount, parsed.note, "", "", 0, parsed.quick_category = "",
             normalized_note)

\* a variant of the inserted row that leaves the category empty without a prediction
MessageExpense_uncategorized(id, threshold, group_id, user_id, parsed, normalized_note, prediction) ==
  ExpenseRow(id, group_id, user_id,
             IF parsed.quick_category # "" THEN parsed.quick_category
             ELSE prediction.category,
             IF parsed.quick_category # "" THEN "" ELSE prediction.subcategory,
             parsed.amount, parsed.note,
             IF parsed.quick_category # "" THEN parsed.quick_category
             ELSE prediction.category,
             IF parsed.quick_category # "" THEN "" ELSE prediction.subcategory,
             IF parsed.quick_category # "" THEN 100 ELSE prediction.confidence,
             parsed.quick_category = "", normalized_note)

\* a variant of the inserted row that lets the classifier overrule the quick category
MessageExpense_classifies_quick(id, threshold, group_id, user_id, parsed, normalized_note, prediction) ==
  IF prediction # NoPrediction /\ prediction.confidence >= threshold
  THEN ExpenseRow(id, group_id, user_id, prediction.category,
                  prediction.subcategory, parsed.amount, parsed.note,
                  prediction.category, prediction.subcategory,
                  prediction.confidence, TRUE, normalized_note)
  ELSE IF parsed.quick_category # ""
  THEN ExpenseRow(id, group_id, user_id, parsed.quick_category, "",
                  parsed.amount, parsed.note, parsed.quick_category, "", 100,
                  FALSE, normalized_note)
  ELSE ExpenseRow(id, group_id, user_id,
                  IF prediction # NoPrediction THEN prediction.category ELSE "other",
                  IF prediction # NoPrediction THEN prediction.subcategory ELSE "",
                  parsed.amount, parsed.note,
                  IF prediction # NoPrediction THEN prediction.category ELSE "",
                  IF prediction # NoPrediction THEN prediction.subcategory ELSE "",
                  IF prediction # NoPrediction THEN prediction.confidence ELSE 0,
                  TRUE, normalized_note)

\* a variant whose low-confidence row records that the category was not applied
MessageExpense_flags_fallback(id, threshold, group_id, user_id, parsed, normalized_note, prediction) ==
  IF parsed.quick_category # ""
  THEN ExpenseRow(id, group_id, user_id, parsed.quick_category, "",
                  parsed.amount, parsed.note, parsed.quick_category, "", 100,
                  FALSE, normalized_note)
  ELSE IF prediction # NoPrediction /\ prediction.confidence >= threshold
  THEN ExpenseRow(id, group_id, user_id, prediction.category,
                  prediction.subcategory, parsed.amount, parsed.note,
                  prediction.category, prediction.subcategory,
                  prediction.confidence, TRUE, normalized_note)
  ELSE ExpenseRow(id, group_id, user_id,
                  IF prediction # NoPrediction THEN prediction.category ELSE "other",
                  IF prediction # NoPrediction THEN prediction.subcategory ELSE "",
                  parsed.amount, parsed.note,
                  IF prediction # NoPrediction THEN prediction.category ELSE "",
                  IF prediction # NoPrediction THEN prediction.subcategory ELSE "",
                  IF prediction # NoPrediction THEN prediction.confidence ELSE 0,
                  FALSE, normalized_note)

\* the row process_expense_text inserts for a parsed message: lines 169-182 with
\* a quick category, 193-206 at or above the threshold, 225-240 otherwise
MessageExpense(id, threshold, group_id, user_id, parsed, normalized_note, prediction) ==
  IF parsed.quick_category # ""
  THEN ExpenseRow(id, group_id, user_id, parsed.quick_category, "",
                  parsed.amount, parsed.note, parsed.quick_category, "", 100,
                  FALSE, normalized_note)
  ELSE IF prediction # NoPrediction /\ prediction.confidence >= threshold
  THEN ExpenseRow(id, group_id, user_id, prediction.category,
                  prediction.subcategory, parsed.amount, parsed.note,
                  prediction.category, prediction.subcategory,
                  prediction.confidence, TRUE, normalized_note)
  ELSE ExpenseRow(id, group_id, user_id,
                  IF prediction # NoPrediction THEN prediction.category ELSE "other",
                  IF prediction # NoPrediction THEN prediction.subcategory ELSE "",
                  parsed.amount, parsed.note,
                  IF prediction # NoPrediction THEN prediction.category ELSE "",
                  IF prediction # NoPrediction THEN prediction.subcategory ELSE "",
                  IF prediction # NoPrediction THEN prediction.confidence ELSE 0,
                  TRUE, normalized_note)

\* a variant of the handler that stores nothing when the classifier has no guess
ProcessExpenseText_drops_unclassified(group_id, user_id, raw_text) ==
  \E parsed \in {Parsed[raw_text]} :
    \E normalized_note \in {Normalized[parsed.note]},
       prediction \in {MessagePrediction(merchant_aliases, group_id, parsed.note)} :
      /\ update_seq' = update_seq + 1
      /\ IF ~parsed.ok \/ (parsed.quick_category = "" /\ prediction = NoPrediction)
         THEN UNCHANGED <<expenses, expense_seq, group_settings>>
         ELSE /\ group_settings' = ensure_group(group_settings, group_id)
              /\ expense_seq' = expense_seq + 1
              /\ expenses' = expenses \cup
                   {MessageExpense(expense_seq + 1, auto_category_threshold, group_id,
                                   user_id, parsed, normalized_note, prediction)}
      /\ UNCHANGED <<pending_expenses, category_feedback, merchant_aliases,
                     pending_seq, auto_category_threshold, classifier, tasks, finalized, now_utc,
                     due_groups, sent_reminders, failed_reminders, calls>>

\* process_expense_text: a text without an amount is answered and stores nothing
\* (lines 145-149); a parsed one stores exactly one expenses row.  The row is a
\* function of the alias read on line 190, and the insert gives it the next id.
ProcessExpenseText(group_id, user_id, raw_text) ==
  \E parsed \in {Parsed[raw_text]} :
    \E normalized_note \in {Normalized[parsed.note]},
       prediction \in {MessagePrediction(merchant_aliases, group_id, parsed.note)} :
      /\ update_seq' = update_seq + 1
      /\ IF ~parsed.ok
         THEN UNCHANGED <<expenses, expense_seq, group_settings>>
         ELSE /\ group_settings' = ensure_group(group_settings, group_id)
              /\ expense_seq' = expense_seq + 1
              /\ expenses' = expenses \cup
                   {MessageExpense(expense_seq + 1, auto_category_threshold, group_id,
                                   user_id, parsed, normalized_note, prediction)}
      /\ UNCHANGED <<pending_expenses, category_feedback, merchant_aliases,
                     pending_seq, auto_category_threshold, classifier, tasks, finalized, now_utc,
                     due_groups, sent_reminders, failed_reminders, calls>>

(***************************************************************************)
(* bot.on_category_chosen, one step per await that reads or writes a table *)
(***************************************************************************)
\* a variant that never keeps the guess
ChosenSubcategory_never_kept(predicted_subcategory, category) == ""

\* a variant that keeps the guess whatever category was chosen
ChosenSubcategory_keeps_guess(predicted_subcategory, category) == predicted_subcategory

\* a variant in which the resolver picks another leaf of the chosen category
ChosenSubcategory_other_leaf(predicted_subcategory, category) ==
  IF /\ predicted_subcategory # ""
     /\ predicted_subcategory \in SubcategoryKeys
     /\ SUBCATEGORY_TO_CATEGORY[predicted_subcategory] = category
     /\ \E k \in SubcategoryKeys :
          k # predicted_subcategory /\ SUBCATEGORY_TO_CATEGORY[k] = category
  THEN CHOOSE k \in SubcategoryKeys :
         k # predicted_subcategory /\ SUBCATEGORY_TO_CATEGORY[k] = category
  ELSE ""

\* lines 570-572
ChosenSubcategory(predicted_subcategory, category) ==
  IF /\ predicted_subcategory # ""
     /\ predicted_subcategory \in SubcategoryKeys
     /\ SUBCATEGORY_TO_CATEGORY[predicted_subcategory] = category
  THEN predicted_subcategory
  ELSE ""

\* a variant of the handler without the author check
OnCategoryChosen_any_user(t, pending_id, category, from_user) ==
  LET pending == get_pending(pending_expenses, pending_id)
      call == [IdleTask EXCEPT !.pending_id = pending_id, !.category = category,
                               !.from_user = from_user]
  IN  /\ tasks[t].pc = "idle"
      /\ \A s \in 1..(t - 1) : tasks[s].pc # "idle"
      /\ update_seq' = update_seq + 1
      /\ tasks' = [tasks EXCEPT ![t] =
           IF category \notin BASE_CATEGORIES
           THEN [call EXCEPT !.pc = "done", !.answer = "UnknownCategory"]
           ELSE IF pending = NoPending
           THEN [call EXCEPT !.pc = "done", !.answer = "NotFound"]
           ELSE [call EXCEPT !.pc = "finalize", !.pending = pending,
                             !.chosen_subcategory =
                               ChosenSubcategory(pending.predicted_subcategory, category)]]
      /\ UNCHANGED <<db, auto_category_threshold, classifier, finalized, reminders,
                 calls>>

\* lines 532-572: the button press arrives as the next callback; the category
\* check, get_pending, the author check, the subcategory to store
OnCategoryChosen(t, pending_id, category, from_user) ==
  LET pending == get_pending(pending_expenses, pending_id)
      call == [IdleTask EXCEPT !.pending_id = pending_id, !.category = category,
                               !.from_user = from_user]
  IN  /\ tasks[t].pc = "idle"
      /\ \A s \in 1..(t - 1) : tasks[s].pc # "idle"
      /\ update_seq' = update_seq + 1
      /\ tasks' = [tasks EXCEPT ![t] =
           IF category \notin BASE_CATEGORIES
           THEN [call EXCEPT !.pc = "done", !.answer = "UnknownCategory"]
           ELSE IF pending = NoPending
           THEN [call EXCEPT !.pc = "done", !.answer = "NotFound"]
           ELSE IF from_user # pending.user_id
           THEN [call EXCEPT !.pc = "done", !.answer = "Forbidden"]
           ELSE [call EXCEPT !.pc = "finalize", !.pending = pending,
                             !.chosen_subcategory =
                               ChosenSubcategory(pending.predicted_subcategory, category)]]
      /\ UNCHANGED <<db, auto_category_threshold, classifier, finalized, reminders,
                 calls>>

\* Database.finalize_pending, lines 443-445: its own get_pending
FinalizeGetPending(t) ==
  LET pending == get_pending(pending_expenses, tasks[t].pending_id)
  IN  /\ tasks[t].pc = "finalize"
      /\ tasks' = [tasks EXCEPT ![t] =
           IF pending = NoPending
           THEN [@ EXCEPT !.pc = "done", !.answer = "SaveFailed"]
           ELSE [@ EXCEPT !.pc = "commit", !.pending = pending]]
      /\ UNCHANGED <<db, auto_category_threshold, classifier, update_seq, finalized, reminders,
                 calls>>

\* a variant of the commit that leaves the pending row in place
FinalizeCommit_keeps_pending(t) ==
  LET p == tasks[t].pending
  IN  /\ tasks[t].pc = "commit"
      /\ expense_seq' = expense_seq + 1
      /\ expenses' = expenses \cup
           {ExpenseRow(expense_seq + 1, p.group_id, p.user_id, tasks[t].category,
                       tasks[t].chosen_subcategory, p.amount, p.note,
                       p.predicted_category, p.predicted_subcategory,
                       p.predicted_confidence, FALSE, p.raw_comment_normalized)}
      /\ finalized' = finalized \cup
           {[pending_id |-> tasks[t].pending_id, expense_id |-> expense_seq + 1]}
      /\ tasks' = [tasks EXCEPT ![t] =
           [@ EXCEPT !.pc = "feedback", !.expense_id = expense_seq + 1]]
      /\ UNCHANGED <<pending_expenses, category_feedback, merchant_aliases, pending_seq,
                     auto_category_threshold, classifier, update_seq, reminders,
                 calls>>

\* Database.finalize_pending, lines 460-487: INSERT, DELETE, commit on a second
\* connection, with the row read by FinalizeGetPending
FinalizeCommit(t) ==
  LET p == tasks[t].pending
  IN  /\ tasks[t].pc = "commit"
      /\ expense_seq' = expense_seq + 1
      /\ expenses' = expenses \cup
           {ExpenseRow(expense_seq + 1, p.group_id, p.user_id, tasks[t].category,
                       tasks[t].chosen_subcategory, p.amount, p.note,
                       p.predicted_category, p.predicted_subcategory,
                       p.predicted_confidence, FALSE, p.raw_comment_normalized)}
      /\ pending_expenses' = {q \in pending_expenses : q.id # tasks[t].pending_id}
      /\ finalized' = finalized \cup
           {[pending_id |-> tasks[t].pending_id, expense_id |-> expense_seq + 1]}
      /\ tasks' = [tasks EXCEPT ![t] =
           [@ EXCEPT !.pc = "feedback", !.expense_id = expense_seq + 1]]
      /\ UNCHANGED <<category_feedback, merchant_aliases, pending_seq,
                     auto_category_threshold, classifier, update_seq, reminders,
                 calls>>

\* a variant that records feedback for every resolution that had a guess
RecordFeedback_any_choice(t) ==
  LET p == tasks[t].pending
  IN  /\ tasks[t].pc = "feedback"
      /\ IF p.predicted_subcategory # ""
         THEN record_feedback(p.group_id, p.raw_comment_normalized,
                              p.predicted_subcategory, tasks[t].chosen_subcategory)
         ELSE UNCHANGED <<category_feedback, merchant_aliases>>
      /\ tasks' = [tasks EXCEPT ![t] = [@ EXCEPT !.pc = "done", !.answer = "Saved"]]
      /\ UNCHANGED <<expenses, pending_expenses, expense_seq, pending_seq,
                     auto_category_threshold, classifier, update_seq, finalized, reminders,
                     calls>>

\* lines 579-611: record_feedback when the guess was confirmed, then the reply
RecordFeedback(t) ==
  LET p == tasks[t].pending
  IN  /\ tasks[t].pc = "feedback"
      /\ IF p.predicted_subcategory # "" /\ tasks[t].chosen_subcategory # ""
         THEN record_feedback(p.group_id, p.raw_comment_normalized,
                              p.predicted_subcategory, tasks[t].chosen_subcategory)
         ELSE UNCHANGED <<category_feedback, merchant_aliases>>
      /\ tasks' = [tasks EXCEPT ![t] = [@ EXCEPT !.pc = "done", !.answer = "Saved"]]
      /\ UNCHANGED <<expenses, pending_expenses, expense_seq, pending_seq,
                     auto_category_threshold, classifier, update_seq, finalized, reminders,
                 calls>>

(***************************************************************************)
(* Database.undo_last_by_user, one step per statement that awaits          *)
(***************************************************************************)
\* lines 654-667: the SELECT of the greatest id of (group, user); None ends the call
UndoSelect(k, group_id, user_id) ==
  LET ids == {e.id : e \in {x \in expenses : x.group_id = group_id /\ x.user_id = user_id}}
  IN  /\ undo_tasks[k].pc = "idle"
      /\ \A j \in 1..(k - 1) : undo_tasks[j].pc # "idle"
      /\ update_seq' = update_seq + 1
      /\ undo_tasks' = [undo_tasks EXCEPT ![k] =
           IF ids = {}
           THEN [pc |-> "done", group_id |-> group_id, user_id |-> user_id,
                 expense_id |-> 0]
           ELSE [pc |-> "delete", group_id |-> group_id, user_id |-> user_id,
                 expense_id |-> CHOOSE i \in ids : \A j \in ids : j <= i]]
      /\ UNCHANGED <<db, auto_category_threshold, classifier, tasks, finalized, reminders,
                 feedback_tasks, write_lock>>

\* a variant of the delete that also removes the feedback events of the group
UndoDelete_forgets_feedback(k) ==
  /\ undo_tasks[k].pc = "delete"
  /\ expenses' = {e \in expenses : e.id # undo_tasks[k].expense_id}
  /\ category_feedback' =
       SelectSeq(category_feedback, LAMBDA e : e.group_id # undo_tasks[k].group_id)
  /\ undo_tasks' = [undo_tasks EXCEPT ![k] = [@ EXCEPT !.pc = "done"]]
  /\ UNCHANGED <<pending_expenses, merchant_aliases, expense_seq,
                 pending_seq, auto_category_threshold, classifier, update_seq, tasks, finalized,
                 reminders,
                 feedback_tasks, write_lock>>

\* a variant of the delete that also forgets what the group has learned
UndoDelete_forgets_aliases(k) ==
  /\ undo_tasks[k].pc = "delete"
  /\ expenses' = {e \in expenses : e.id # undo_tasks[k].expense_id}
  /\ merchant_aliases' =
       {a \in merchant_aliases : a.group_id # undo_tasks[k].group_id}
  /\ undo_tasks' = [undo_tasks EXCEPT ![k] = [@ EXCEPT !.pc = "done"]]
  /\ UNCHANGED <<pending_expenses, category_feedback, expense_seq,
                 pending_seq, auto_category_threshold, classifier, update_seq, tasks, finalized,
                 reminders,
                 feedback_tasks, write_lock>>

\* lines 669-672: DELETE by id, commit, the id is returned
UndoDelete(k) ==
  /\ undo_tasks[k].pc = "delete"
  /\ expenses' = {e \in expenses : e.id # undo_tasks[k].expense_id}
  /\ undo_tasks' = [undo_tasks EXCEPT ![k] = [@ EXCEPT !.pc = "done"]]
  /\ UNCHANGED <<pending_expenses, category_feedback, merchant_aliases, expense_seq,
                 pending_seq, auto_category_threshold, classifier, update_seq, tasks, finalized,
                 reminders,
                 feedback_tasks, write_lock>>

(***************************************************************************)
(* bot.reminder_worker                                                     *)
(***************************************************************************)
\* time passes
TickTo(times) ==
  /\ \E t \in times : t > now_utc /\ now_utc' = t
  /\ UNCHANGED <<db, auto_category_threshold, classifier, update_seq, tasks, finalized,
                 group_settings, due_groups, sent_reminders, failed_reminders, calls>>

Tick == TickTo(ClockTimes)

\* lines 293-295, Database.list_groups_due_for_reminder in one transaction: the
\* candidates with an expense today are marked, the others are returned as due
ReminderList ==
  \E candidates \in {ReminderCandidates(group_settings, now_utc)} :
    \E spent \in {{r \in candidates :
                     has_expenses_on_local_date(expenses, r.group_id, r.timezone,
                                                LocalDate(now_utc, r.timezone))}} :
      /\ due_groups = <<>>
      /\ candidates # {}
      /\ group_settings' =
           {IF r \in spent
            THEN [r EXCEPT !.last_reminder_date = LocalDate(now_utc, r.timezone)]
            ELSE r : r \in group_settings}
      /\ due_groups' =
           [i \in 1..Cardinality(candidates \ spent) |->
              LET group_id == Ascending({r.group_id : r \in candidates \ spent})[i]
                  r == CHOOSE x \in candidates : x.group_id = group_id
              IN  [group_id |-> group_id,
                   local_date |-> LocalDate(now_utc, r.timezone)]]
      /\ UNCHANGED <<db, auto_category_threshold, classifier, update_seq, tasks, finalized,
                     now_utc, sent_reminders, failed_reminders, calls>>

\* lines 296-305: the message is sent, Database.mark_group_reminded
ReminderSend ==
  /\ due_groups # <<>>
  /\ group_settings' =
       mark_group_reminded(group_settings, Head(due_groups).group_id,
                           Head(due_groups).local_date)
  /\ due_groups' = Tail(due_groups)
  /\ sent_reminders' = Append(sent_reminders, Head(due_groups))
  /\ UNCHANGED <<db, auto_category_threshold, classifier, update_seq, tasks, finalized, now_utc,
                 failed_reminders, calls>>

\* a variant in which a send that raises ends the cycle
ReminderSendFails_ends_cycle ==
  /\ due_groups # <<>>
  /\ due_groups' = <<>>
  /\ failed_reminders' = failed_reminders \cup {Head(due_groups)}
  /\ UNCHANGED <<db, auto_category_threshold, classifier, update_seq, tasks, finalized,
                 group_settings, now_utc, sent_reminders, calls>>

\* lines 306-308: the send raises, the group is skipped
ReminderSendFails ==
  /\ due_groups # <<>>
  /\ due_groups' = Tail(due_groups)
  /\ failed_reminders' = failed_reminders \cup {Head(due_groups)}
  /\ UNCHANGED <<db, auto_category_threshold, classifier, update_seq, tasks, finalized,
                 group_settings, now_utc, sent_reminders, calls>>

(***************************************************************************)
(* bot.cmd_settings, bot.on_settings_callback, bot.cmd_remind, bot.cmd_tz  *)
(***************************************************************************)
\* Database.set_reminder_enabled, lines 251-261: UPDATE ... WHERE group_id = ?
set_reminder_enabled(settings, group_id, enabled) ==
  {IF r.group_id = group_id THEN [r EXCEPT !.reminder_enabled = enabled] ELSE r :
     r \in settings}

\* Database.set_reminder_time, lines 263-273
set_reminder_time(settings, group_id, reminder_time) ==
  {IF r.group_id = group_id THEN [r EXCEPT !.reminder_time = reminder_time] ELSE r :
     r \in settings}

\* Database.set_group_timezone, lines 275-285
set_group_timezone(settings, group_id, tz_name) ==
  {IF r.group_id = group_id THEN [r EXCEPT !.timezone = tz_name] ELSE r :
     r \in settings}

\* cmd_settings, lines 390-399: Database.ensure_group
CmdSettings(group_id) ==
  /\ update_seq' = update_seq + 1
  /\ group_settings' = ensure_group(group_settings, group_id)
  /\ UNCHANGED <<db, auto_category_threshold, classifier, tasks, finalized, now_utc,
                 due_groups, sent_reminders, failed_reminders, calls>>

\* on_settings_callback, lines 446-450: cfg:t, Database.set_reminder_enabled
\* with the opposite of the stored flag
ToggleReminder(group_id) ==
  /\ update_seq' = update_seq + 1
  /\ \E enabled \in {IF \E r \in group_settings : r.group_id = group_id
                        THEN \E r \in group_settings :
                               r.group_id = group_id /\ r.reminder_enabled
                        ELSE TRUE} :
       group_settings' = set_reminder_enabled(group_settings, group_id, ~enabled)
  /\ UNCHANGED <<db, auto_category_threshold, classifier, tasks, finalized, now_utc,
                 due_groups, sent_reminders, failed_reminders, calls>>

\* cmd_remind, lines 404-414, and cfg:h, lines 451-455: Database.set_reminder_time
SetReminderTime(group_id, reminder_time) ==
  /\ update_seq' = update_seq + 1
  /\ group_settings' = set_reminder_time(group_settings, group_id, reminder_time)
  /\ UNCHANGED <<db, auto_category_threshold, classifier, tasks, finalized, now_utc,
                 due_groups, sent_reminders, failed_reminders, calls>>

\* cmd_tz, lines 416-431: Database.set_group_timezone
SetTimezone(group_id, tz_name) ==
  /\ update_seq' = update_seq + 1
  /\ group_settings' = set_group_timezone(group_settings, group_id, tz_name)
  /\ UNCHANGED <<db, auto_category_threshold, classifier, tasks, finalized, now_utc,
                 due_groups, sent_reminders, failed_reminders, calls>>

(***************************************************************************)
(* Database.record_feedback, one step per statement that awaits.  The      *)
(* INSERT opens the connection's transaction and takes SQLite's write lock *)
(* until the commit; another connection's INSERT waits for it.             *)
(***************************************************************************)
\* the event that a call inserts
FeedbackEvent(call) ==
  [group_id |-> call.group_id,
   raw_comment_normalized |-> call.raw_comment_normalized,
   predicted_subcategory |-> call.predicted_subcategory,
   chosen_subcategory |-> call.chosen_subcategory]

\* a variant of the call without the early return on an empty text
FeedbackConnect_any_text(k, group_id, raw_comment_normalized, predicted_subcategory, chosen_subcategory) ==
  /\ feedback_tasks[k].pc = "idle"
  /\ \A j \in 1..(k - 1) : feedback_tasks[j].pc # "idle"
  /\ feedback_tasks' = [feedback_tasks EXCEPT ![k] =
       [IdleFeedback EXCEPT
          !.pc = "insert",
          !.group_id = group_id,
          !.raw_comment_normalized = raw_comment_normalized,
          !.predicted_subcategory = predicted_subcategory,
          !.chosen_subcategory = chosen_subcategory]]
  /\ UNCHANGED <<db, auto_category_threshold, classifier, update_seq, tasks, finalized, reminders,
                 undo_tasks, write_lock>>

\* lines 540-542: an empty text returns at once; else the call opens its connection
FeedbackConnect(k, group_id, raw_comment_normalized, predicted_subcategory, chosen_subcategory) ==
  /\ feedback_tasks[k].pc = "idle"
  /\ \A j \in 1..(k - 1) : feedback_tasks[j].pc # "idle"
  /\ feedback_tasks' = [feedback_tasks EXCEPT ![k] =
       [IdleFeedback EXCEPT
          !.pc = IF raw_comment_normalized = <<>> THEN "done" ELSE "insert",
          !.group_id = group_id,
          !.raw_comment_normalized = raw_comment_normalized,
          !.predicted_subcategory = predicted_subcategory,
          !.chosen_subcategory = chosen_subcategory]]
  /\ UNCHANGED <<db, auto_category_threshold, classifier, update_seq, tasks, finalized, reminders,
                 undo_tasks, write_lock>>

\* a variant of the INSERT that opens no transaction: no lock is waited for or taken
FeedbackInsert_without_lock(k) ==
  /\ feedback_tasks[k].pc = "insert"
  /\ feedback_tasks' = [feedback_tasks EXCEPT ![k] = [@ EXCEPT !.pc = "select"]]
  /\ UNCHANGED <<db, auto_category_threshold, classifier, update_seq, tasks, finalized, reminders,
                 undo_tasks, write_lock>>

\* lines 543-550: the INSERT, once no other connection holds the write lock
FeedbackInsert(k) ==
  /\ feedback_tasks[k].pc = "insert"
  /\ write_lock = 0
  /\ write_lock' = k
  /\ feedback_tasks' = [feedback_tasks EXCEPT ![k] = [@ EXCEPT !.pc = "select"]]
  /\ UNCHANGED <<db, auto_category_threshold, classifier, update_seq, tasks, finalized, reminders,
                 undo_tasks>>

\* lines 552-564: the counts over the committed rows and the call's own insert
FeedbackSelect(k) ==
  \E log \in {Append(category_feedback, FeedbackEvent(feedback_tasks[k]))} :
    \E same \in {EventsOf(log, feedback_tasks[k].group_id,
                          feedback_tasks[k].raw_comment_normalized)} :
      /\ feedback_tasks[k].pc = "select"
      /\ feedback_tasks' = [feedback_tasks EXCEPT ![k] =
           [@ EXCEPT !.pc = "upsert",
                     !.total = Cardinality(same),
                     !.chosen_total =
                       Cardinality({i \in same :
                          log[i].chosen_subcategory = feedback_tasks[k].chosen_subcategory})]]
      /\ UNCHANGED <<db, auto_category_threshold, classifier, update_seq, tasks, finalized,
                     reminders, undo_tasks, write_lock>>

\* lines 566-577: the upsert, inside the transaction, when the counts promote
FeedbackUpsert(k) ==
  /\ feedback_tasks[k].pc = "upsert"
  /\ feedback_tasks' = [feedback_tasks EXCEPT ![k] =
       [@ EXCEPT !.pc = "commit",
                 !.promotes = Promotes(feedback_tasks[k].total,
                                       feedback_tasks[k].chosen_total)]]
  /\ UNCHANGED <<db, auto_category_threshold, classifier, update_seq, tasks, finalized, reminders,
                 undo_tasks, write_lock>>

\* line 579: the commit publishes the insert and the upsert and frees the lock
FeedbackCommit(k) ==
  /\ feedback_tasks[k].pc = "commit"
  /\ category_feedback' = Append(category_feedback, FeedbackEvent(feedback_tasks[k]))
  /\ merchant_aliases' =
       IF feedback_tasks[k].promotes
       THEN {a \in merchant_aliases :
               ~(/\ a.group_id = feedback_tasks[k].group_id
                 /\ a.normalized_pattern = feedback_tasks[k].raw_comment_normalized)}
            \cup {[group_id |-> feedback_tasks[k].group_id,
                   normalized_pattern |-> feedback_tasks[k].raw_comment_normalized,
                   subcategory |-> feedback_tasks[k].chosen_subcategory,
                   confidence |-> 97,
                   source |-> "feedback"]}
       ELSE merchant_aliases
  /\ write_lock' = 0
  /\ feedback_tasks' = [feedback_tasks EXCEPT ![k] = [@ EXCEPT !.pc = "done"]]
  /\ UNCHANGED <<expenses, pending_expenses, expense_seq, pending_seq,
                 auto_category_threshold, classifier, update_seq, tasks, finalized, reminders,
                 undo_tasks>>

(***************************************************************************)
(* The reminder worker next to the messages and the settings commands of   *)
(* two groups, and the clock                                               *)
(***************************************************************************)
NextReminder ==
  \/ \E g \in Groups, u \in GateUsers, text \in OpsTexts :
       update_seq < MaxReminderOps /\ ProcessExpenseText(g, u, text)
  \/ \E g \in Groups : update_seq < MaxReminderOps /\ CmdSettings(g)
  \/ \E g \in Groups : update_seq < MaxReminderOps /\ ToggleReminder(g)
  \/ \E g \in Groups, reminder_time \in ReminderTimes :
       update_seq < MaxReminderOps /\ SetReminderTime(g, reminder_time)
  \/ \E g \in Groups, tz_name \in TimezoneNames :
       update_seq < MaxReminderOps /\ SetTimezone(g, tz_name)
  \/ TickTo(ReminderClockTimes)
  \/ ReminderList
  \/ ReminderSend
  \/ ReminderSendFails

SpecReminder == Init /\ [][NextReminder]_vars

\* The worker never stops (while True, lines 293-310): a cycle that can start
\* does start; and the sends do not fail for ever
SpecReminderLive == SpecReminder /\ WF_vars(ReminderList) /\ SF_vars(ReminderSend)

(***************************************************************************)
(* Direct calls of classifier.normalize_text and classifier.predict_category *)
(***************************************************************************)
\* normalize_text(text) returns
NormalizeText ==
  /\ call_pc = "ready"
  /\ call_normalized' = normalize_text(call_text)
  /\ call_pc' = "normalized"
  /\ UNCHANGED <<db, auto_category_threshold, update_seq, tasks, finalized, reminders,
                 calls, call_text, call_alias, call_prediction>>

\* normalize_text is called on the value it returned
NormalizeAgain ==
  /\ call_pc = "normalized"
  /\ call_text' = call_normalized
  /\ call_normalized' = normalize_text(call_normalized)
  /\ call_pc' = "normalized_again"
  /\ UNCHANGED <<db, auto_category_threshold, update_seq, tasks, finalized, reminders,
                 calls, call_alias, call_prediction>>

\* predict_category(note, alias_subcategory) returns
PredictCategory ==
  /\ call_pc = "ready"
  /\ call_prediction' = predict_category(call_text, call_alias)
  /\ call_pc' = "predicted"
  /\ UNCHANGED <<db, auto_category_threshold, update_seq, tasks, finalized, reminders,
                 calls, call_text, call_alias, call_normalized>>

(***************************************************************************)
(* normalize_text on every short text, then on its own result              *)
(***************************************************************************)
InitNormalize ==
  /\ EmptyDatabase({DefaultRawThreshold})
  /\ call_pc = "ready"
  /\ call_text \in NormalizeInputs
  /\ call_alias = ""
  /\ call_normalized = <<>>
  /\ call_prediction = NoPrediction

NextNormalize == NormalizeText \/ NormalizeAgain

SpecNormalize == InitNormalize /\ [][NextNormalize]_vars

(***************************************************************************)
(* predict_category on every note and alias of the input domain            *)
(***************************************************************************)
InitPredict ==
  /\ EmptyDatabase({DefaultRawThreshold})
  /\ call_pc = "ready"
  /\ call_text \in PredictNotes
  /\ call_alias \in PredictAliases
  /\ call_normalized = <<>>
  /\ call_prediction = NoPrediction

NextPredict == PredictCategory

SpecPredict == InitPredict /\ [][NextPredict]_vars

(***************************************************************************)
(* The bot: messages, pending rows and concurrent button presses           *)
(***************************************************************************)
Next ==
  \/ \E g \in BotGroups, u \in Users, text \in Texts :
       update_seq < MaxUpdates /\ ProcessExpenseText(g, u, text)
  \/ \E g \in BotGroups, u \in Users, amount \in PendingAmounts, note \in PendingNotes,
        p \in PendingPredictions :
       \E raw_comment_normalized \in {Normalized[note]} :
         /\ update_seq < MaxUpdates
         /\ CreatePendingExpense(g, u, amount, note, p, raw_comment_normalized)
  \/ \E t \in Tasks, id \in 0..pending_seq, c \in Choices, u \in Users :
       update_seq < MaxUpdates /\ OnCategoryChosen(t, id, c, u)
  \/ \E t \in Tasks : FinalizeGetPending(t)
  \/ \E t \in Tasks : FinalizeCommit(t)
  \/ \E t \in Tasks : RecordFeedback(t)

Spec == Init /\ [][Next]_vars

(***************************************************************************)
(* The bot with the button presses handled one after the other             *)
(***************************************************************************)
\* no callback is between two of its awaits
Serial == \A t \in Tasks : tasks[t].pc \in {"idle", "done"}

NextSeq ==
  \/ \E g \in BotGroups, u \in Users, text \in Texts :
       update_seq < MaxUpdates /\ ProcessExpenseText(g, u, text)
  \/ \E g \in BotGroups, u \in Users, amount \in PendingAmounts, note \in PendingNotes,
        p \in PendingPredictions :
       \E raw_comment_normalized \in {Normalized[note]} :
         /\ update_seq < MaxUpdates
         /\ CreatePendingExpense(g, u, amount, note, p, raw_comment_normalized)
  \/ \E t \in Tasks, id \in 0..pending_seq, c \in Choices, u \in Users :
       Serial /\ update_seq < MaxUpdates /\ OnCategoryChosen(t, id, c, u)
  \/ \E t \in Tasks : FinalizeGetPending(t)
  \/ \E t \in Tasks : FinalizeCommit(t)
  \/ \E t \in Tasks : RecordFeedback(t)

SpecSeq == Init /\ [][NextSeq]_vars

(***************************************************************************)
(* The routing gate: messages under every threshold, with the aliases that *)
(* record_feedback has promoted.  A message changes no alias, so the calls *)
(* of record_feedback come first: every alias table meets every message.   *)
(***************************************************************************)
InitGate == InitWith(GateRawThresholds)

NextGate ==
  \/ \E g \in Groups, u \in GateUsers, text \in GateTexts :
       update_seq < MaxGateMessages /\ ProcessExpenseText(g, u, text)
  \/ \E g \in Groups, text \in FeedbackTexts, c \in GateFeedbackSubcategories :
       /\ update_seq = 0
       /\ Len(category_feedback) < MaxGateFeedback
       /\ RecordFeedbackCall(g, text, c, c)

SpecGate == InitGate /\ [][NextGate]_vars

\* one message under each threshold and every alias table that record_feedback
\* can build before it
NextThreshold ==
  \/ \E g \in Groups, u \in GateUsers, text \in GateTexts :
       update_seq < MaxThresholdMessages /\ ProcessExpenseText(g, u, text)
  \/ \E g \in Groups, text \in FeedbackTexts, c \in GateFeedbackSubcategories :
       /\ update_seq = 0
       /\ Len(category_feedback) < MaxGateFeedback
       /\ RecordFeedbackCall(g, text, c, c)

SpecThreshold == InitGate /\ [][NextThreshold]_vars

(***************************************************************************)
(* The learner: record_feedback calls with any guess and any choice        *)
(***************************************************************************)
NextLearner ==
  \E g \in Groups, text \in FeedbackTexts, p \in FeedbackSubcategories,
     c \in FeedbackSubcategories :
    Len(category_feedback) < MaxFeedback /\ RecordFeedbackCall(g, text, p, c)

SpecLearner == Init /\ [][NextLearner]_vars

(***************************************************************************)
(* All the operations: record_feedback calls first, then messages, pending *)
(* rows, button presses, undo calls, the reminder worker and the clock     *)
(***************************************************************************)
NextOps ==
  \/ \E g \in BotGroups, text \in OpsFeedbackTexts, c \in OpsFeedbackSubcategories :
       /\ update_seq = 0
       /\ Len(category_feedback) < MaxOpsFeedback
       /\ RecordFeedbackCall(g, text, c, c)
  \/ \E g \in BotGroups, u \in GateUsers, text \in OpsTexts :
       update_seq < MaxOps /\ ProcessExpenseText(g, u, text)
  \/ \E g \in BotGroups, u \in GateUsers, amount \in PendingAmounts,
        note \in OpsPendingNotes, p \in PendingPredictions :
       \E raw_comment_normalized \in {Normalized[note]} :
         /\ update_seq < MaxOps
         /\ CreatePendingExpense(g, u, amount, note, p, raw_comment_normalized)
  \/ \E t \in Tasks, id \in 0..pending_seq, c \in Choices, u \in Users :
       update_seq < MaxOps /\ OnCategoryChosen(t, id, c, u)
  \/ \E t \in Tasks : FinalizeGetPending(t)
  \/ \E t \in Tasks : FinalizeCommit(t)
  \/ \E t \in Tasks : RecordFeedback(t)
  \/ \E k \in UndoTasks, g \in BotGroups, u \in Users :
       update_seq < MaxOps /\ UndoSelect(k, g, u)
  \/ \E k \in UndoTasks : UndoDelete(k)
  \/ Tick
  \/ ReminderList
  \/ ReminderSend
  \/ ReminderSendFails

SpecOps == Init /\ [][NextOps]_vars

(***************************************************************************)
(* The ratchet: enough record_feedback calls on one (group, text) for a    *)
(* second promotion to overwrite the first                                 *)
(***************************************************************************)
NextRatchet ==
  \E g \in BotGroups, text \in OpsFeedbackTexts, c \in FeedbackSubcategories :
    Len(category_feedback) < MaxRatchetFeedback /\ RecordFeedbackCall(g, text, c, c)

SpecRatchet == Init /\ [][NextRatchet]_vars

(***************************************************************************)
(* The race: record_feedback calls that run concurrently                   *)
(***************************************************************************)
NextRace ==
  \/ \E k \in FeedbackTasks, g \in BotGroups, text \in FeedbackTexts,
        c \in FeedbackSubcategories :
       FeedbackConnect(k, g, text, c, c)
  \/ \E k \in FeedbackTasks : FeedbackInsert(k)
  \/ \E k \in FeedbackTasks : FeedbackSelect(k)
  \/ \E k \in FeedbackTasks : FeedbackUpsert(k)
  \/ \E k \in FeedbackTasks : FeedbackCommit(k)

SpecRace == Init /\ [][NextRace]_vars

(***************************************************************************)
(* Properties                                                              *)
(***************************************************************************)
OpenIds == {p.id : p \in pending_expenses}
FinalizedIds == {f.pending_id : f \in finalized}
Author(pending_id) == get_pending(pending_expenses, pending_id).user_id

\* C1: two resolution attempts by the author for the same pending id, interleaved at
\* the awaits of on_category_chosen and finalize_pending, insert at most one Expense
\* for that pending id: no pending id is finalized into two expenses rows.
C1_ExactlyOnce ==
  \A a \in finalized, b \in finalized :
    a.pending_id = b.pending_id => a.expense_id = b.expense_id

\* the tables and answers of a serial run, and what each step of a press does
C2_Inv ==
  /\ \A a \in finalized, b \in finalized :
       a.pending_id = b.pending_id => a.expense_id = b.expense_id
  /\ FinalizedIds \cap OpenIds = {}
  /\ \A t \in Tasks : tasks[t].answer # "SaveFailed"

C2_Step ==
  /\ \A t \in Tasks, id \in 0..pending_seq, c \in Choices, u \in Users :
       OnCategoryChosen(t, id, c, u) =>
         IF id \in OpenIds
         THEN (c \in BASE_CATEGORIES /\ u = Author(id)) => tasks'[t].pc = "finalize"
         ELSE /\ tasks'[t].pc = "done"
              /\ c \in BASE_CATEGORIES => tasks'[t].answer = "NotFound"
              /\ UNCHANGED db
  /\ \A t \in Tasks : FinalizeGetPending(t) => tasks'[t].pc = "commit"
  /\ \A t \in Tasks :
       FinalizeCommit(t) =>
         /\ tasks'[t].expense_id = expense_seq + 1
         /\ \E e \in expenses' : e.id = tasks'[t].expense_id /\ e \notin expenses
         /\ Cardinality(expenses') = Cardinality(expenses) + 1
         /\ tasks[t].pending_id \notin {p.id : p \in pending_expenses'}
  /\ \A t \in Tasks : RecordFeedback(t) => tasks'[t].answer = "Saved"

\* C2: with the button presses handled one after the other, a press by the author
\* on an open pending goes through (finalize_pending finds the row, inserts one
\* Expense, returns its id, deletes the pending, the handler answers Saved); a
\* press on an id that is not open - resolved before or never created - answers
\* NotFound (with a category of the keyboard) and changes no table; no pending id
\* is finalized twice.
C2_SequentialResolution == []C2_Inv /\ [][C2_Step]_vars

\* a pending was resolved by its author and a later press on the same id got NotFound
C2_Witness ==
  \E t1 \in Tasks, t2 \in Tasks :
    /\ t1 < t2
    /\ tasks[t1].answer = "Saved" /\ tasks[t1].expense_id > 0
    /\ tasks[t2].answer = "NotFound"
    /\ tasks[t2].pending_id = tasks[t1].pending_id

\* a press by another user on an open pending
C3_Step ==
  \A t \in Tasks, id \in 0..pending_seq, c \in Choices, u \in Users :
    (/\ OnCategoryChosen(t, id, c, u)
     /\ id \in OpenIds
     /\ u # Author(id)) =>
      /\ tasks'[t].pc = "done"
      /\ c \in BASE_CATEGORIES => tasks'[t].answer = "Forbidden"
      /\ UNCHANGED db

\* C3: a press on an open pending by a user other than its author answers Forbidden
\* (with a category of the keyboard) and changes no table: the pending stays open,
\* and the expense, feedback and alias tables are as before.
C3_ForbiddenChangesNothing == [][C3_Step]_vars

\* another user was refused, and the author then resolved the same pending
C3_Witness ==
  \E t1 \in Tasks, t2 \in Tasks :
    /\ t1 < t2
    /\ tasks[t1].answer = "Forbidden"
    /\ tasks[t2].answer = "Saved"
    /\ tasks[t2].pending_id = tasks[t1].pending_id

\* C4: every Expense with a non-empty subcategory has the category that the
\* taxonomy gives that subcategory, whichever path stored it.
C4_CategoryIsParent ==
  \A e \in expenses :
    e.subcategory # "" =>
      /\ e.subcategory \in SubcategoryKeys
      /\ SUBCATEGORY_TO_CATEGORY[e.subcategory] = e.category

\* a resolved pending and a classified message both stored a subcategory
C4_Witness ==
  /\ \E e \in expenses : ~e.is_auto_applied /\ e.subcategory # "" /\ e.id \in {f.expense_id : f \in finalized}
  /\ \E e \in expenses : e.is_auto_applied /\ e.subcategory # ""

\* the classified messages: an amount was parsed and no quick category was named
Classified(parsed) == parsed.ok /\ parsed.quick_category = ""

\* the expenses row expected of a classified message
RoutedRow(group_id, user_id, parsed, category, subcategory, auto_category, auto_subcategory, auto_confidence) ==
  [id |-> expense_seq + 1, group_id |-> group_id, user_id |-> user_id,
   category |-> category, subcategory |-> subcategory, amount |-> parsed.amount,
   note |-> parsed.note, auto_category |-> auto_category,
   auto_subcategory |-> auto_subcategory, auto_confidence |-> auto_confidence,
   is_auto_applied |-> TRUE, raw_comment_normalized |-> Normalized[parsed.note],
   spent_at |-> now_utc]

\* a message whose prediction is below the threshold
C5_Step ==
  \A g \in Groups, u \in GateUsers, text \in GateTexts :
    \A parsed \in {Parsed[text]} :
      \A prediction \in {MessagePrediction(merchant_aliases, g, parsed.note)} :
        (/\ ProcessExpenseText(g, u, text)
         /\ Classified(parsed)
         /\ prediction # NoPrediction
         /\ prediction.confidence < auto_category_threshold) =>
          /\ expenses' = expenses
          /\ \E p \in pending_expenses' :
               /\ p \notin pending_expenses
               /\ p.amount = parsed.amount
               /\ p.note = parsed.note
               /\ p.predicted_subcategory = prediction.subcategory
               /\ p.predicted_confidence = prediction.confidence
               /\ p.raw_comment_normalized = Normalized[parsed.note]

\* C5: a message whose prediction has a confidence below the threshold opens a
\* PendingDecision with its amount, note, predicted subcategory, predicted
\* confidence and normalized note, and creates no Expense.
C5_LowConfidenceOpensPending == [][C5_Step]_vars

\* a message whose prediction is at or above the threshold
C6_Step ==
  \A g \in Groups, u \in GateUsers, text \in GateTexts :
    \A parsed \in {Parsed[text]} :
      \A prediction \in {MessagePrediction(merchant_aliases, g, parsed.note)} :
        (/\ ProcessExpenseText(g, u, text)
         /\ Classified(parsed)
         /\ prediction # NoPrediction
         /\ prediction.confidence >= auto_category_threshold) =>
          \E row \in {RoutedRow(g, u, parsed, prediction.category,
                                prediction.subcategory, prediction.category,
                                prediction.subcategory, prediction.confidence)} :
            /\ row \notin expenses
            /\ expenses' = expenses \cup {row}
            /\ pending_expenses' = pending_expenses
            /\ pending_seq' = pending_seq

\* C6: a message whose prediction has a confidence at or above the threshold stores
\* exactly one Expense, with the prediction's category and subcategory, is_auto_applied
\* set and the prediction in the audit fields, and opens no PendingDecision.
C6_AutoApply == [][C6_Step]_vars

\* an auto-applied Expense whose confidence is exactly the threshold, and one above it
C6_Witness ==
  /\ \E e \in expenses :
       /\ e.is_auto_applied /\ e.auto_subcategory # ""
       /\ e.auto_confidence = auto_category_threshold
  /\ \E e \in expenses :
       /\ e.is_auto_applied /\ e.auto_subcategory # ""
       /\ e.auto_confidence > auto_category_threshold

\* a classified message without a prediction
C7_Step ==
  \A g \in Groups, u \in GateUsers, text \in GateTexts :
    \A parsed \in {Parsed[text]} :
      \A prediction \in {MessagePrediction(merchant_aliases, g, parsed.note)} :
        (/\ ProcessExpenseText(g, u, text)
         /\ Classified(parsed)
         /\ prediction = NoPrediction) =>
          \E row \in {RoutedRow(g, u, parsed, "other", "", "", "", 0)} :
            /\ row \notin expenses
            /\ expenses' = expenses \cup {row}
            /\ pending_expenses' = pending_expenses

\* C7: a classified message with a parsed amount and no prediction (no note, a note
\* that normalizes to nothing, a note without keyword or alias) stores exactly one
\* Expense: category "other", no subcategory, is_auto_applied set, empty audit
\* fields, the note as written.
C7_NoPredictionIsOther == [][C7_Step]_vars

\* "other" was stored for a note that normalizes to nothing and for a note without
\* keyword, or for one of them and a message without note
C7_Witness ==
  \E e1 \in expenses, e2 \in expenses :
    /\ e1.category = "other" /\ e1.is_auto_applied /\ e1.auto_category = ""
    /\ e1.note = Note_bangs /\ e1.raw_comment_normalized = <<>>
    /\ e2.category = "other" /\ e2.is_auto_applied /\ e2.auto_confidence = 0
    /\ e2.note # Note_bangs
    /\ e2.subcategory = ""

\* a message with a parsed amount
C8_Step ==
  \A g \in Groups, u \in GateUsers, text \in GateTexts :
    \A parsed \in {Parsed[text]} :
      (ProcessExpenseText(g, u, text) /\ parsed.ok) =>
        \E new_expenses \in {expenses' \ expenses},
           new_pendings \in {pending_expenses' \ pending_expenses} :
          /\ expenses \subseteq expenses'
          /\ pending_expenses \subseteq pending_expenses'
          /\ Cardinality(new_expenses) + Cardinality(new_pendings) = 1
          /\ \A r \in new_expenses \cup new_pendings :
               /\ r.amount = parsed.amount
               /\ r.note = parsed.note
               /\ r.group_id = g
               /\ r.user_id = u

\* C8: every message with a parsed amount stores exactly one record with that amount
\* and note - an Expense or a PendingDecision - and removes none, whatever the note.
C8_AmountStoredOnce == [][C8_Step]_vars

\* two messages were stored, one with a decimal amount and an unclassifiable note
C8_Witness ==
  /\ Cardinality(expenses) = 2
  /\ \E e \in expenses : e.amount = 9950 /\ e.note = Note_bangs
  /\ \E e \in expenses : e.amount = 45000

\* the classifier given an alias, and a message whose note has an alias
C9_Predict ==
  \A n \in AllNotes, a \in SubcategoryKeys :
    Normalized[n] # <<>> =>
      Predicted[n, a] = [category |-> SUBCATEGORY_TO_CATEGORY[a], subcategory |-> a,
                         confidence |-> 97, reason |-> "alias"]

C9_Step ==
  \A g \in Groups, u \in GateUsers, text \in GateTexts :
    \A parsed \in {Parsed[text]} :
      \A alias \in {a \in merchant_aliases :
                      /\ a.group_id = g
                      /\ a.normalized_pattern = Normalized[parsed.note]
                      /\ a.subcategory \in SubcategoryKeys} :
        (/\ ProcessExpenseText(g, u, text)
         /\ Classified(parsed)
         /\ Normalized[parsed.note] # <<>>) =>
          \E e \in expenses' :
            /\ e \notin expenses
            /\ e.subcategory = alias.subcategory
            /\ e.category = SUBCATEGORY_TO_CATEGORY[alias.subcategory]
            /\ e.auto_subcategory = alias.subcategory
            /\ e.auto_category = SUBCATEGORY_TO_CATEGORY[alias.subcategory]
            /\ e.auto_confidence = 97

\* C9: for a note whose normalized form is not empty and an alias subcategory of the
\* taxonomy, predict_category returns the alias's subcategory, its parent category,
\* confidence 0.97 and reason "alias", whatever keywords the note holds; and a
\* message whose (group, normalized note) has such an alias is stored with it.
C9_AliasWins == []C9_Predict /\ [][C9_Step]_vars

\* "кофе", a keyword of food_out, was stored as transport_taxi through an alias
C9_Witness ==
  \E e \in expenses :
    /\ e.raw_comment_normalized = Note_kofe
    /\ e.subcategory = "transport_taxi"
    /\ e.auto_confidence = 97
    /\ \E a \in merchant_aliases :
         /\ a.group_id = e.group_id
         /\ a.normalized_pattern = Note_kofe
         /\ a.subcategory = "transport_taxi"

\* a call of record_feedback with a non-empty text
C10_Step ==
  \A g \in Groups, text \in FeedbackTexts, p \in FeedbackSubcategories,
     c \in FeedbackSubcategories :
    (RecordFeedbackCall(g, text, p, c) /\ text # <<>>) =>
      \E events \in {{i \in 1..Len(category_feedback') :
                        /\ category_feedback'[i].group_id = g
                        /\ category_feedback'[i].raw_comment_normalized = text}} :
        \E total \in {Cardinality(events)},
           agree \in {Cardinality({i \in events :
                                     category_feedback'[i].chosen_subcategory = c})} :
          /\ Len(category_feedback') = Len(category_feedback) + 1
          /\ IF total >= 3 /\ agree * 5 >= total * 4
             THEN /\ merchant_aliases' =
                       {a \in merchant_aliases :
                          a.group_id # g \/ a.normalized_pattern # text}
                       \cup {[group_id |-> g, normalized_pattern |-> text,
                              subcategory |-> c, confidence |-> 97,
                              source |-> "feedback"]}
                  /\ \A other \in FeedbackSubcategories \ {c} :
                       Cardinality({i \in events :
                          category_feedback'[i].chosen_subcategory = other}) < agree
             ELSE merchant_aliases' = merchant_aliases

\* C10: after record_feedback(group, text, predicted, chosen) with a non-empty text,
\* with total the feedback events of (group, text) including the new one and agree
\* those among them that chose chosen: if total >= 3 and agree / total >= 0.8 the
\* alias of (group, text) is chosen with confidence 0.97 and source "feedback", and
\* chosen is the majority choice; otherwise the alias table is unchanged.
C10_Promotion == [][C10_Step]_vars

\* the first of five events of a group disagrees with the four that follow: the call
\* that recorded the fifth met the share of 0.8 exactly and promoted the alias
C10_Witness ==
  \E g \in Groups, c \in FeedbackSubcategories :
    /\ Len(category_feedback) = 5
    /\ \A i \in 1..5 : category_feedback[i].group_id = g
    /\ category_feedback[1].chosen_subcategory # c
    /\ \A i \in 2..5 : category_feedback[i].chosen_subcategory = c
    /\ \E a \in merchant_aliases : a.group_id = g /\ a.subcategory = c

\* the last three of a set of positions
LastThree(events) == {i \in events : Cardinality({j \in events : j > i}) < 3}

\* the alias of (group, text) is the subcategory c with confidence 0.97, and the
\* lookup followed by predict_category returns it for every note that normalizes
\* to the text
AliasVisible(aliases, group_id, text, c) ==
  /\ \E a \in aliases :
       /\ a.group_id = group_id /\ a.normalized_pattern = text
       /\ a.subcategory = c /\ a.confidence = 97
  /\ \E alias_subcategory \in {get_alias_subcategory(aliases, group_id, text)} :
       /\ alias_subcategory = c
       /\ \A n \in AllNotes :
            Normalized[n] = text =>
              Predicted[n, alias_subcategory] =
                [category |-> SUBCATEGORY_TO_CATEGORY[c], subcategory |-> c,
                 confidence |-> 97, reason |-> "alias"]

\* a call of record_feedback that records the third of three consecutive events of
\* its (group, text) with the same choice
C11_OriginalStep ==
  \A g \in Groups, text \in FeedbackTexts, p \in FeedbackSubcategories,
     c \in FeedbackSubcategories :
    (RecordFeedbackCall(g, text, p, c) /\ text # <<>>) =>
      \E events \in {EventsOf(category_feedback', g, text)} :
        \E last \in {LastThree(events)} :
          (/\ Cardinality(last) = 3
           /\ \A i \in last : category_feedback'[i].chosen_subcategory = c)
            => AliasVisible(merchant_aliases', g, text, c)

\* C11 as stated: once three consecutive feedback events of the same (group,
\* normalized note) all choose the same subcategory, the alias exists when the third
\* record_feedback returns and the next lookup and predict return it with confidence
\* 0.97 and reason "alias".  Earlier events of the key that chose otherwise keep the
\* share under 0.8, and then no alias is written.
C11_ThreeInARow == [][C11_OriginalStep]_vars

\* the same call when the agreeing events are at least 0.8 of all the events of the key
C11_Step ==
  \A g \in Groups, text \in FeedbackTexts, p \in FeedbackSubcategories,
     c \in FeedbackSubcategories :
    (RecordFeedbackCall(g, text, p, c) /\ text # <<>>) =>
      \E events \in {EventsOf(category_feedback', g, text)} :
        \E last \in {LastThree(events)},
           agree \in {Cardinality({i \in events :
                                     category_feedback'[i].chosen_subcategory = c})} :
          (/\ Cardinality(last) = 3
           /\ \A i \in last : category_feedback'[i].chosen_subcategory = c
           /\ agree * 5 >= Cardinality(events) * 4)
            => AliasVisible(merchant_aliases', g, text, c)

\* C11: once three consecutive feedback events of the same (group, normalized note)
\* all choose the same subcategory, and the events choosing it are at least 0.8 of all
\* the events of that key (as when the three are its first), the alias exists when the
\* third record_feedback returns, and the next alias lookup and predict for that group
\* and note return that subcategory with confidence 0.97 and reason "alias", whatever
\* the keyword score.
C11_PromotionVisible == [][C11_Step]_vars

\* the first three events of "кофе" in a group all chose transport_taxi: the alias is
\* there and the prediction for "кофе", a keyword of food_out, is the alias
C11_Witness ==
  \E g \in Groups :
    /\ Cardinality(EventsOf(category_feedback, g, Note_kofe)) = 3
    /\ \A i \in EventsOf(category_feedback, g, Note_kofe) :
         category_feedback[i].chosen_subcategory = "transport_taxi"
    /\ AliasVisible(merchant_aliases, g, Note_kofe, "transport_taxi")
    /\ Predicted[Note_kofe, ""].subcategory = "food_out"

\* every alias is backed by at least three feedback events of its (group, pattern)
C12_Inv ==
  \A a \in merchant_aliases :
    Cardinality(EventsOf(category_feedback, a.group_id, a.normalized_pattern)) >= 3

\* a step that changes the alias table is the promotion of record_feedback: the log
\* grew by one event and the alias of that event's key now holds its choice
C12_Step ==
  merchant_aliases' # merchant_aliases =>
    /\ Len(category_feedback') = Len(category_feedback) + 1
    /\ SubSeq(category_feedback', 1, Len(category_feedback)) = category_feedback
    /\ \E e \in {category_feedback'[Len(category_feedback')]} :
         /\ e.raw_comment_normalized # <<>>
         /\ Cardinality(EventsOf(category_feedback', e.group_id,
                                 e.raw_comment_normalized)) >= 3
         /\ merchant_aliases' =
              {a \in merchant_aliases :
                 a.group_id # e.group_id
                 \/ a.normalized_pattern # e.raw_comment_normalized}
              \cup {[group_id |-> e.group_id,
                     normalized_pattern |-> e.raw_comment_normalized,
                     subcategory |-> e.chosen_subcategory, confidence |-> 97,
                     source |-> "feedback"]}

\* the operations other than record_feedback leave the alias table as it is
C12_Frame ==
  /\ \A g \in BotGroups, u \in GateUsers, text \in OpsTexts :
       ProcessExpenseText(g, u, text) => merchant_aliases' = merchant_aliases
  /\ (pending_seq' # pending_seq) => merchant_aliases' = merchant_aliases
  /\ \A t \in Tasks :
       (tasks'[t] # tasks[t] /\ tasks'[t].answer # "Saved")
         => merchant_aliases' = merchant_aliases
  /\ \A k \in UndoTasks :
       undo_tasks'[k] # undo_tasks[k] => merchant_aliases' = merchant_aliases
  /\ (group_settings' # group_settings \/ due_groups' # due_groups
      \/ now_utc' # now_utc) => merchant_aliases' = merchant_aliases

\* C12: alias rows are created or changed only by the promotion step of
\* record_feedback: a message, a new pending row, every step of a resolution but its
\* record_feedback (Forbidden and NotFound answers included), undo, the reminder
\* worker and the clock leave the alias table unchanged, and in every reachable state
\* each alias of (group, pattern) is backed by at least 3 feedback events of that
\* (group, pattern).
C12_AliasesOnlyByPromotion == []C12_Inv /\ [][C12_Step /\ C12_Frame]_vars

\* an alias is there; since the run began an expense was undone, a press was refused
\* and the group was marked as reminded
C12_Witness ==
  /\ merchant_aliases # {}
  /\ \E k \in UndoTasks : undo_tasks[k].pc = "done" /\ undo_tasks[k].expense_id # 0
  /\ \E t \in Tasks : tasks[t].answer \in {"NotFound", "Forbidden"}
  /\ \E r \in group_settings : r.last_reminder_date # NoDate

\* what a group has learned: its feedback events in order (its totals are counts
\* over them), its alias rows, and what the lookup and the prediction return for its
\* notes
GroupView(log, aliases, group_id) ==
  [events |-> SelectSeq(log, LAMBDA e : e.group_id = group_id),
   rows |-> {a \in aliases : a.group_id = group_id},
   lookup |-> [text \in FeedbackTexts |-> get_alias_subcategory(aliases, group_id, text)],
   prediction |-> [n \in PendingNotes |-> MessagePrediction(aliases, group_id, n)]]

\* a call of record_feedback for one group leaves the view of every other group
C13_Step ==
  \A g \in Groups, text \in FeedbackTexts, p \in FeedbackSubcategories,
     c \in FeedbackSubcategories :
    RecordFeedbackCall(g, text, p, c) =>
      \A other \in Groups \ {g} :
        GroupView(category_feedback', merchant_aliases', other) =
          GroupView(category_feedback, merchant_aliases, other)

\* C13: learning is group-scoped: a feedback event or a promotion recorded for group A
\* changes neither the totals, nor the alias lookup result, nor the prediction of any
\* note in a different group B, even for the identical normalized note.
C13_GroupScoped == [][C13_Step]_vars

\* both groups have events of "кофе"; one has promoted transport_taxi and predicts
\* it, the other has no alias and still predicts food_out from the keyword
C13_Witness ==
  \E a, b \in Groups :
    /\ a # b
    /\ get_alias_subcategory(merchant_aliases, a, Note_kofe) = "transport_taxi"
    /\ MessagePrediction(merchant_aliases, a, Note_kofe).reason = "alias"
    /\ EventsOf(category_feedback, b, Note_kofe) # {}
    /\ get_alias_subcategory(merchant_aliases, b, Note_kofe) = ""
    /\ MessagePrediction(merchant_aliases, b, Note_kofe).subcategory = "food_out"

\* every event of the log stays where it is, and every key with an alias keeps one
C14_Step ==
  /\ Len(category_feedback') >= Len(category_feedback)
  /\ SubSeq(category_feedback', 1, Len(category_feedback)) = category_feedback
  /\ \A a \in merchant_aliases :
       \E b \in merchant_aliases' :
         b.group_id = a.group_id /\ b.normalized_pattern = a.normalized_pattern

\* C14: the feedback log is append-only and aliases are never deleted: across any
\* step of any operation, every existing feedback event remains present and
\* unmodified, and every (group, pattern) that has an alias keeps having one.
C14_AppendOnly == [][C14_Step]_vars

\* a fourth event was recorded by a resolution after the alias was promoted, and the
\* expense of that resolution was undone: the three first events and the alias remain
C14_Witness ==
  /\ Len(category_feedback) = 4
  /\ \E a \in merchant_aliases : a.normalized_pattern = Note_kofe
  /\ \E t \in Tasks : tasks[t].answer = "Saved"
  /\ \E k \in UndoTasks : undo_tasks[k].pc = "done" /\ undo_tasks[k].expense_id # 0

\* the events of a key that promoted when they were recorded: with the events of the
\* key up to and including it, at least 3 and at least 0.8 of them with its choice
PromotingEvents(log, group_id, text) ==
  {i \in EventsOf(log, group_id, text) :
     \E upto \in {{j \in EventsOf(log, group_id, text) : j <= i}} :
       /\ Cardinality(upto) >= 3
       /\ Cardinality({j \in upto : log[j].chosen_subcategory = log[i].chosen_subcategory}) * 5
            >= Cardinality(upto) * 4}

\* C15: in every reachable state there is at most one alias row per (group,
\* normalized pattern), there is one exactly when some event of the key promoted, and
\* it holds the subcategory of the most recent promoting event with confidence 0.97:
\* a later promotion of another subcategory overwrites the earlier one (3 events
\* choosing A then 12 choosing B leave alias = B), never merging or duplicating.
C15_LastPromotionWins ==
  /\ \A a, b \in merchant_aliases :
       (a.group_id = b.group_id /\ a.normalized_pattern = b.normalized_pattern) => a = b
  /\ \A g \in Groups, text \in FeedbackTexts \ {<<>>} :
       \E promoting \in {PromotingEvents(category_feedback, g, text)} :
         {a \in merchant_aliases : a.group_id = g /\ a.normalized_pattern = text} =
           IF promoting = {} THEN {}
           ELSE {[group_id |-> g, normalized_pattern |-> text,
                  subcategory |->
                    category_feedback[CHOOSE i \in promoting :
                                        \A j \in promoting : j <= i].chosen_subcategory,
                  confidence |-> 97, source |-> "feedback"]}

\* three events chose food_out and promoted it, the twelve that followed chose
\* transport_taxi: the fifteenth met the share of 0.8 and the one alias row of the
\* key now holds transport_taxi
C15_Witness ==
  /\ Len(category_feedback) = 15
  /\ \A i \in 1..3 : category_feedback[i].chosen_subcategory = "food_out"
  /\ \A i \in 4..15 : category_feedback[i].chosen_subcategory = "transport_taxi"
  /\ \E a \in merchant_aliases :
       a.normalized_pattern = Note_kofe /\ a.subcategory = "transport_taxi"
  /\ Cardinality(merchant_aliases) = 1

\* the orders in which the calls can run one after the other
CallOrders ==
  {order \in [FeedbackTasks -> FeedbackTasks] :
     \A i, j \in FeedbackTasks : i # j => order[i] # order[j]}

\* the tables after the first n calls of an order have run one after the other, each
\* as the single transaction of record_feedback, from the empty tables
RECURSIVE SerialRun(_, _)
SerialRun(order, n) ==
  IF n = 0 THEN [log |-> <<>>, aliases |-> {}]
  ELSE LET before == SerialRun(order, n - 1)
           call == feedback_tasks[order[n]]
       IN  [log |-> FeedbackAfter(before.log, call.group_id, call.raw_comment_normalized,
                                  call.predicted_subcategory, call.chosen_subcategory),
            aliases |-> AliasesAfter(before.log, before.aliases, call.group_id,
                                     call.raw_comment_normalized,
                                     call.predicted_subcategory, call.chosen_subcategory)]

\* C16: concurrent record_feedback calls on the same (group, normalized note) lose no
\* update: once all of them have completed, the feedback log and the alias table are
\* those produced by the calls run one after the other in some order, so every event
\* is in the log and every count-then-upsert saw a consistent log with its own insert.
C16_Serializable ==
  (\A k \in FeedbackTasks : feedback_tasks[k].pc = "done") =>
    \E order \in CallOrders :
      \E serial \in {SerialRun(order, MaxCalls)} :
        /\ serial.log = category_feedback
        /\ serial.aliases = merchant_aliases

\* calls on "кофе" were in flight together and have all completed; the first to
\* arrive, the only one choosing food_out, waited for the lock and committed last:
\* the log holds every event, in the order of the commits
C16_Witness ==
  /\ \A k \in FeedbackTasks :
       /\ feedback_tasks[k].pc = "done"
       /\ feedback_tasks[k].raw_comment_normalized = Note_kofe
       /\ feedback_tasks[k].chosen_subcategory = "food_out" <=> k = 1
  /\ Len(category_feedback) = MaxCalls
  /\ category_feedback[MaxCalls].chosen_subcategory = "food_out"

\* the subcategory that a resolution with base category c is to store for a pending
\* whose predicted subcategory is given
ResolvedSubcategory(predicted_subcategory, c) ==
  IF /\ predicted_subcategory # ""
     /\ predicted_subcategory \in SubcategoryKeys
     /\ SUBCATEGORY_TO_CATEGORY[predicted_subcategory] = c
  THEN predicted_subcategory
  ELSE ""

\* a press by the author on an open pending with a category of the keyboard goes on
\* to finalize_pending whatever the guess was, and the finalize insert stores the
\* chosen category with the guess kept or dropped
C17_Step ==
  /\ \A t \in Tasks, id \in 0..pending_seq, c \in Choices, u \in Users :
       (/\ OnCategoryChosen(t, id, c, u)
        /\ c \in BASE_CATEGORIES
        /\ id \in OpenIds
        /\ u = Author(id)) => tasks'[t].pc = "finalize"
  /\ \A t \in Tasks :
       FinalizeCommit(t) =>
         \E p \in {tasks[t].pending} :
           \E e \in expenses' \ expenses :
             /\ expenses' = expenses \cup {e}
             /\ e.id = tasks'[t].expense_id
             /\ e.category = tasks[t].category
             /\ e.category \in BASE_CATEGORIES
             /\ e.subcategory = ResolvedSubcategory(p.predicted_subcategory, e.category)
             /\ (e.subcategory = p.predicted_subcategory) <=>
                  (\/ p.predicted_subcategory = ""
                   \/ SUBCATEGORY_TO_CATEGORY[p.predicted_subcategory] = e.category)
             /\ e.subcategory \in {p.predicted_subcategory, ""}

\* C17: on a successful resolution with chosen base category c, the Expense's
\* subcategory is the pending's predicted subcategory if and only if that subcategory
\* is non-empty and its taxonomy parent is c; otherwise the subcategory is empty.  A
\* mismatching choice is not refused: the Expense is still created, with category c.
C17_ResolvedSubcategory == [][C17_Step]_vars

\* a pending guessed as food_out was resolved as other: the Expense has category
\* other, no subcategory, and the guess in its audit fields
C17_Witness ==
  \E e \in expenses, f \in finalized :
    /\ f.expense_id = e.id
    /\ e.category = "other"
    /\ e.subcategory = ""
    /\ e.auto_subcategory = "food_out"
    /\ ~e.is_auto_applied

\* the guess of a pending was confirmed by the choice of category c
Confirmed(p, c) ==
  p.predicted_subcategory # "" /\ ResolvedSubcategory(p.predicted_subcategory, c) # ""

\* the log after a step is the log before it with this one event appended
Recorded(p) ==
  category_feedback' =
    Append(category_feedback,
           [group_id |-> p.group_id,
            raw_comment_normalized |-> p.raw_comment_normalized,
            predicted_subcategory |-> p.predicted_subcategory,
            chosen_subcategory |-> p.predicted_subcategory])

\* the steps of a resolution before its finalize insert has succeeded, and the
\* refused presses, record nothing
C18_NoFeedbackBefore ==
  \A t \in Tasks :
    (tasks'[t] # tasks[t] /\ tasks[t].pc # "feedback") =>
      category_feedback' = category_feedback

\* the step after a successful finalize records one event exactly when the guess
\* was confirmed
C18_OriginalStep ==
  /\ C18_NoFeedbackBefore
  /\ \A t \in Tasks :
       RecordFeedback(t) =>
         \E p \in {tasks[t].pending} :
           IF Confirmed(p, tasks[t].category)
           THEN Recorded(p)
           ELSE category_feedback' = category_feedback

C18_Step ==
  /\ C18_NoFeedbackBefore
  /\ \A t \in Tasks :
       RecordFeedback(t) =>
         \E p \in {tasks[t].pending} :
           IF Confirmed(p, tasks[t].category) /\ p.raw_comment_normalized # <<>>
           THEN Recorded(p)
           ELSE category_feedback' = category_feedback

C19_Inv ==
  /\ \A g \in Groups, p \in FeedbackSubcategories, c \in FeedbackSubcategories :
       /\ FeedbackAfter(category_feedback, g, <<>>, p, c) = category_feedback
       /\ AliasesAfter(category_feedback, merchant_aliases, g, <<>>, p, c) =
            merchant_aliases
  /\ \A k \in FeedbackTasks :
       feedback_tasks[k].raw_comment_normalized = <<>> =>
         feedback_tasks[k].pc \in {"idle", "done"}
  /\ \A i \in 1..Len(category_feedback) :
       category_feedback[i].raw_comment_normalized # <<>>
  /\ \A a \in merchant_aliases : a.normalized_pattern # <<>>

\* a call with the empty text returns at its first step and changes no table
C19_Step ==
  \A k \in FeedbackTasks, g \in BotGroups, c \in FeedbackSubcategories :
    FeedbackConnect(k, g, <<>>, c, c) =>
      /\ feedback_tasks'[k].pc = "done"
      /\ category_feedback' = category_feedback
      /\ merchant_aliases' = merchant_aliases
      /\ UNCHANGED db

\* C19: record_feedback with an empty normalized note is a no-op: the feedback log
\* and the alias table are unchanged.
C19_EmptyNoteNoOp == []C19_Inv /\ [][C19_Step]_vars

\* two calls on "кофе" have recorded their events; a third call, with the empty text,
\* has returned and the log still holds the two events
C19_Witness ==
  /\ \E k \in FeedbackTasks :
       /\ feedback_tasks[k].pc = "done"
       /\ feedback_tasks[k].raw_comment_normalized = <<>>
       /\ feedback_tasks[k].chosen_subcategory # ""
  /\ Len(category_feedback) = 2
  /\ \A i \in 1..2 : category_feedback[i].raw_comment_normalized = Note_kofe

\* per note of the model: some keyword of the taxonomy is a substring of the
\* normalized note
KeywordFound ==
  [n \in AllNotes |->
     \E i \in 1..Len(SUBCATEGORIES) :
       \E j \in 1..Len(SUBCATEGORIES[i].keywords) :
         Contains(Normalized[n], SUBCATEGORIES[i].keywords[j])]

\* an alias subcategory applies when it is given and is a key of the taxonomy
AliasApplies(alias_subcategory) ==
  alias_subcategory # "" /\ alias_subcategory \in SubcategoryKeys

\* predict_category on every note and alias value of the model
C20_Predict ==
  \A n \in AllNotes, a \in AliasValues :
    /\ (Predicted[n, a] = NoPrediction) <=>
         (\/ Normalized[n] = <<>>
          \/ (~AliasApplies(a) /\ ~KeywordFound[n]))
    /\ Predicted[n, a] # NoPrediction =>
         /\ Predicted[n, a].reason \in {"alias", "rules"}
         /\ Predicted[n, a].subcategory \in SubcategoryKeys
         /\ Predicted[n, a].category = SUBCATEGORY_TO_CATEGORY[Predicted[n, a].subcategory]
         /\ Predicted[n, a].confidence \in 20..98

\* a classified message with a note is stored without a guess exactly when its note
\* normalizes to nothing or has neither an alias in its group nor a keyword
C20_Step ==
  \A g \in Groups, u \in GateUsers, text \in GateTexts :
    \A parsed \in {Parsed[text]} :
      (/\ ProcessExpenseText(g, u, text)
       /\ Classified(parsed)
       /\ parsed.note # <<>>) =>
        \E alias_subcategory \in
             {get_alias_subcategory(merchant_aliases, g, Normalized[parsed.note])} :
          \E e \in expenses' \ expenses :
            (e.auto_subcategory = "") <=>
              (\/ Normalized[parsed.note] = <<>>
               \/ (alias_subcategory = "" /\ ~KeywordFound[parsed.note]))

\* C20: predict returns none (not an error) whenever the normalized note is empty,
\* even if an alias subcategory is supplied, and whenever no alias applies and no
\* taxonomy keyword is a substring of the normalized note; in every other case it
\* returns a Prediction.
C20_NoneIffNothingMatches == []C20_Predict /\ [][C20_Step]_vars

\* "xyz", without keyword or alias, and "!!!", which normalizes to nothing, were both
\* stored without a guess; given the alias food_out the classifier still has no
\* guess for "!!!", and has one for "xyz"
C20_Witness ==
  /\ \E e \in expenses :
       e.raw_comment_normalized = <<120, 121, 122>> /\ e.auto_subcategory = ""
  /\ \E e \in expenses : e.note = Note_bangs /\ e.auto_subcategory = ""
  /\ Predicted[Note_bangs, "food_out"] = NoPrediction
  /\ Predicted[<<120, 121, 122>>, "food_out"].reason = "alias"
  /\ Predicted[<<120, 121, 122>>, "bogus"] = NoPrediction

\* the positions of the keywords of a subcategory that occur in the normalized note
KeywordHits(normalized, sub) ==
  {i \in 1..Len(sub.keywords) : Contains(normalized, sub.keywords[i])}

\* those that equal the note, or stand at its start followed by a space
LeadingHits(normalized, sub) ==
  {i \in KeywordHits(normalized, sub) :
     LET word == sub.keywords[i]
     IN  \/ normalized = word
         \/ /\ Len(normalized) > Len(word)
            /\ SubSeq(normalized, 1, Len(word)) = word
            /\ normalized[Len(word) + 1] = SP}

\* 1.0 for each keyword that occurs and 0.35 more for each leading one, in hundredths
StatedScore(normalized, sub) ==
  100 * Cardinality(KeywordHits(normalized, sub))
    + 35 * Cardinality(LeadingHits(normalized, sub))

SubcategoryOf(key) == CHOOSE i \in 1..Len(SUBCATEGORIES) : SUBCATEGORIES[i].key = key

\* C21: without an alias, predict_category answers with a subcategory of the
\* greatest score, the score of a subcategory being 1.0 for each of its
\* keywords that occurs in the normalized note plus 0.35 for each such keyword
\* that equals the note or stands at its start followed by a space; it answers
\* None exactly when no subcategory scores; the note "такси" scores
\* transport_taxi 1.35 and is predicted transport / transport_taxi with
\* confidence 0.71.
C21_MaxScoreWins ==
  (call_pc = "predicted" /\ call_alias = "") =>
    \E normalized \in {normalize_text(call_text)} :
      LET score == [i \in 1..Len(SUBCATEGORIES) |-> StatedScore(normalized, SUBCATEGORIES[i])]
          scored == {i \in 1..Len(SUBCATEGORIES) : score[i] > 0}
      IN  /\ (call_prediction = NoPrediction) <=> (scored = {})
          /\ scored # {} =>
               /\ call_prediction.reason = "rules"
               /\ call_prediction.subcategory \in SubcategoryKeys
               /\ \A i \in scored :
                    score[SubcategoryOf(call_prediction.subcategory)] >= score[i]
               /\ call_prediction.category =
                    SUBCATEGORIES[SubcategoryOf(call_prediction.subcategory)].category
          /\ call_text = Fragment_taksi =>
               /\ score[SubcategoryOf("transport_taxi")] = 135
               /\ call_prediction =
                    [category |-> "transport", subcategory |-> "transport_taxi",
                     confidence |-> 71, reason |-> "rules"]

\* the note "такси кофе" has been predicted without an alias: both keywords
\* occur, the leading one decides for transport_taxi
C21_Witness ==
  /\ call_pc = "predicted"
  /\ call_alias = ""
  /\ call_text = Join(<<Fragment_taksi, Note_kofe>>)
  /\ call_prediction.subcategory = "transport_taxi"
  /\ call_prediction.reason = "rules"

\* the scores of the subcategories that scored, the greatest of them (best) and
\* the greatest of the others (second, 0 when only one scored)
StatedScores(normalized) ==
  [i \in {j \in 1..Len(SUBCATEGORIES) : StatedScore(normalized, SUBCATEGORIES[j]) > 0} |->
     StatedScore(normalized, SUBCATEGORIES[i])]

BestOf(score) == CHOOSE i \in DOMAIN score : \A j \in DOMAIN score : score[i] >= score[j]

SecondScore(score) ==
  LET others == DOMAIN score \ {BestOf(score)}
  IN  IF others = {} THEN 0
      ELSE score[CHOOSE i \in others : \A j \in others : score[i] >= score[j]]

\* 0.55 + 0.12 * best - 0.07 * second clamped to [0.2, 0.98], in ten-thousandths
\* (the scores are in hundredths)
StatedConfidence(best_score, second_score) ==
  LET raw == 5500 + 12 * best_score - 7 * second_score
  IN  IF raw < 2000 THEN 2000 ELSE IF raw > 9800 THEN 9800 ELSE raw

\* C22: every rules prediction has the confidence 0.55 + 0.12 * best - 0.07 *
\* second, clamped to [0.2, 0.98] and rounded to two decimals (it is the
\* hundredth nearest to the clamped value), where best is the top score and
\* second the score in second place (0 if only one subcategory scored); so the
\* confidence lies in [0.2, 0.98].
C22_ConfidenceFormula ==
  (call_pc = "predicted" /\ call_prediction.reason = "rules") =>
    \E score \in {StatedScores(normalize_text(call_text))} :
      \E exact \in {StatedConfidence(score[BestOf(score)], SecondScore(score))} :
        /\ 100 * call_prediction.confidence - exact \in -50..50
        /\ call_prediction.confidence \in 20..98

\* the note "кофе чай кафе обед" has been predicted: four keywords of food_out,
\* one of them leading, give 0.55 + 0.12 * 4.35 = 1.072, clamped to 0.98
C22_Witness ==
  /\ call_pc = "predicted"
  /\ call_text = Join(<<Note_kofe, Fragment_chai_kafe_obed>>)
  /\ call_prediction.reason = "rules"
  /\ call_prediction.confidence = 98
  /\ 5500 + 12 * StatedScore(normalize_text(call_text), SUBCATEGORIES[1]) > 9800

\* C23: when two or more subcategories share the top score, predict_category
\* answers with the one declared earliest in the taxonomy: no subcategory
\* declared before the predicted one scores as much as it does.
C23_EarliestDeclaredWins ==
  (call_pc = "predicted" /\ call_prediction.reason = "rules") =>
    \E normalized \in {normalize_text(call_text)} :
      \E chosen \in {SubcategoryOf(call_prediction.subcategory)} :
        /\ \A i \in 1..Len(SUBCATEGORIES) :
             StatedScore(normalized, SUBCATEGORIES[i])
               <= StatedScore(normalized, SUBCATEGORIES[chosen])
        /\ \A i \in 1..(chosen - 1) :
             StatedScore(normalized, SUBCATEGORIES[i])
               < StatedScore(normalized, SUBCATEGORIES[chosen])

\* the note "и круассан поездка" has been predicted: transport_taxi (keyword
\* "поездка") and transport_public (keyword "поезд") both score 1.0, and the
\* answer is transport_taxi, which is declared first
C23_Witness ==
  /\ call_pc = "predicted"
  /\ call_alias = ""
  /\ call_text = Join(<<Fragment_i_kruassan, Fragment_poezdka>>)
  /\ StatedScore(normalize_text(call_text), SUBCATEGORIES[SubcategoryOf("transport_taxi")]) = 100
  /\ StatedScore(normalize_text(call_text), SUBCATEGORIES[SubcategoryOf("transport_public")]) = 100
  /\ call_prediction.subcategory = "transport_taxi"

Note_kofe_i_kruassan == Join(<<Note_kofe, Fragment_i_kruassan>>)      \* "кофе и круассан"

\* the claim as written: the note "кофе и круассан", predicted without an alias,
\* gets no bonus for its leading keyword and is answered food / food_out with
\* confidence 0.67
C24_NoBonusForLeadingKeyword ==
  (call_pc = "predicted" /\ call_alias = "" /\ call_text = Note_kofe_i_kruassan) =>
    call_prediction = [category |-> "food", subcategory |-> "food_out",
                       confidence |-> 67, reason |-> "rules"]

\* the subcategories with a keyword that the normalized note starts with,
\* followed by a space and further words
LedBy(normalized) ==
  {i \in 1..Len(SUBCATEGORIES) :
     \E k \in 1..Len(SUBCATEGORIES[i].keywords) :
        LET word == SUBCATEGORIES[i].keywords[k]
        IN  /\ Len(normalized) > Len(word) + 1
            /\ SubSeq(normalized, 1, Len(word) + 1) = word \o <<SP>>}

\* C24: a note that begins with a keyword followed by further words gets the
\* 0.35 bonus for that keyword: when the keyword's subcategory is the only one
\* that scores, with h of its keywords in the note, the confidence is
\* 0.55 + 0.12 * (h + 0.35) clamped to 0.98 and rounded; for the note
\* "кофе и круассан" with no alias, food_out scores 1.35 and the answer is
\* food / food_out with confidence 0.71.
C24_BonusForLeadingKeyword ==
  (call_pc = "predicted" /\ call_alias = "") =>
    \E normalized \in {normalize_text(call_text)} :
      /\ \A i \in LedBy(normalized) :
           (\A j \in 1..Len(SUBCATEGORIES) :
               j # i => KeywordHits(normalized, SUBCATEGORIES[j]) = {}) =>
             \E h \in {Cardinality(KeywordHits(normalized, SUBCATEGORIES[i]))} :
               /\ call_prediction.subcategory = SUBCATEGORIES[i].key
               /\ 100 * call_prediction.confidence
                    - StatedConfidence(100 * h + 35, 0) \in -50..50
      /\ call_text = Note_kofe_i_kruassan =>
           /\ StatedScore(normalized, SUBCATEGORIES[SubcategoryOf("food_out")]) = 135
           /\ call_prediction = [category |-> "food", subcategory |-> "food_out",
                                 confidence |-> 71, reason |-> "rules"]

\* the note "кофе и круассан" has been predicted without an alias, with
\* confidence 0.71
C24_Witness ==
  /\ call_pc = "predicted"
  /\ call_alias = ""
  /\ call_text = Note_kofe_i_kruassan
  /\ LedBy(normalize_text(call_text)) = {SubcategoryOf("food_out")}
  /\ call_prediction.confidence = 71

\* C25: normalize_text returns a value for every text; applied to its own
\* result it returns that result again; the result has no whitespace at its
\* start or end, no whitespace other than single spaces and no two spaces in a
\* row; a text that is empty or made of whitespace and punctuation only
\* normalizes to the empty string.
C25_NormalizeIdempotent ==
  /\ call_pc \in {"normalized", "normalized_again"} =>
       /\ call_normalized \in Seq(Nat)
       /\ call_normalized # <<>> =>
            /\ call_normalized[1] \notin Whitespace
            /\ call_normalized[Len(call_normalized)] \notin Whitespace
       /\ \A i \in 1..Len(call_normalized) :
            /\ call_normalized[i] \in Whitespace => call_normalized[i] = SP
            /\ (i > 1 /\ call_normalized[i] = SP) => call_normalized[i - 1] # SP
  /\ (call_pc = "normalized" /\ \A i \in 1..Len(call_text) : call_text[i] \in {32, 9, 33}) =>
       call_normalized = <<>>
  /\ call_pc = "normalized_again" => call_normalized = call_text

\* normalize_text has been applied to its own result "к 4" and has returned it
\* unchanged
C25_Witness ==
  /\ call_pc = "normalized_again"
  /\ call_text = <<1082, 32, 52>>
  /\ call_normalized = <<1082, 32, 52>>

ExpensesOf(rows, group_id, user_id) ==
  {e \in rows : e.group_id = group_id /\ e.user_id = user_id}

\* a call of undo_last_by_user returns None only when the user has no expense in
\* the group, and then nothing changes
C26_ReturnsNone ==
  \A k \in UndoTasks :
    (undo_tasks[k].pc = "idle" /\ undo_tasks'[k].pc # "idle") =>
      /\ (undo_tasks'[k].pc = "done")
           <=> (ExpensesOf(expenses, undo_tasks'[k].group_id, undo_tasks'[k].user_id) = {})
      /\ undo_tasks'[k].pc = "done" => undo_tasks'[k].expense_id = 0
      /\ undo_tasks'[k].pc = "delete" =>
           \A e \in ExpensesOf(expenses, undo_tasks'[k].group_id, undo_tasks'[k].user_id) :
              e.id <= undo_tasks'[k].expense_id
      /\ UNCHANGED db

\* a call that returns an id has deleted exactly the expense of that id, which
\* was the greatest of its (group, user) when the call read the table
C26_DeletesLatest ==
  \A k \in UndoTasks :
    (undo_tasks[k].pc = "delete" /\ undo_tasks'[k].pc = "done") =>
      \E e \in ExpensesOf(expenses, undo_tasks[k].group_id, undo_tasks[k].user_id) :
        /\ e.id = undo_tasks[k].expense_id
        /\ undo_tasks'[k].expense_id = e.id
        /\ expenses' = expenses \ {e}

\* a call leaves every feedback, alias and pending row as it was
C26_Frame ==
  (\E k \in UndoTasks : undo_tasks'[k] # undo_tasks[k]) =>
    UNCHANGED <<pending_expenses, category_feedback, merchant_aliases>>

\* no step changes a field of an expense, and only a call of undo_last_by_user
\* removes one
C26_Immutable ==
  /\ \A e \in expenses : \A x \in expenses' : x.id = e.id => x = e
  /\ (\A k \in UndoTasks : undo_tasks'[k] = undo_tasks[k]) => expenses \subseteq expenses'

\* C26: undo_last_by_user(group, user) deletes exactly the expense with the
\* greatest id of that (group, user) and returns its id, or returns None and
\* changes nothing when the user has no expense in the group; every other
\* expense and every feedback, alias and pending row stays as it was, and no
\* operation changes a field of an existing expense.
C26_UndoDeletesLatest ==
  [][C26_ReturnsNone /\ C26_DeletesLatest /\ C26_Frame /\ C26_Immutable]_vars

\* the row a running finalize_pending has read is the row of that id, and is
\* the stored row as long as the pending is open
C27_Inv ==
  \A t \in Tasks :
    tasks[t].pc = "commit" =>
      /\ tasks[t].pending.id = tasks[t].pending_id
      /\ \A p \in pending_expenses : p.id = tasks[t].pending_id => p = tasks[t].pending

\* the expense carries what the pending row stored, and is_auto_applied = 0
FromPending(e, p) ==
  /\ e.group_id = p.group_id
  /\ e.user_id = p.user_id
  /\ e.amount = p.amount
  /\ e.note = p.note
  /\ e.raw_comment_normalized = p.raw_comment_normalized
  /\ e.auto_category = p.predicted_category
  /\ e.auto_subcategory = p.predicted_subcategory
  /\ e.auto_confidence = p.predicted_confidence
  /\ e.is_auto_applied = FALSE

\* a call of finalize_pending that returns an id has inserted exactly one
\* expense, of that id, with what the pending row stored
C27_Inserts ==
  \A t \in Tasks :
    (tasks[t].pc = "commit" /\ tasks'[t].pc # "commit") =>
      \E e \in expenses' \ expenses :
        /\ expenses' = expenses \cup {e}
        /\ e.id = tasks'[t].expense_id
        /\ \A x \in expenses : x.id # e.id
        /\ FromPending(e, tasks[t].pending)
        /\ e.category = tasks[t].category

\* and has deleted the pending row in that step
C27_DeletesPending ==
  \A t \in Tasks :
    (tasks[t].pc = "commit" /\ tasks'[t].pc # "commit") =>
      \E p \in pending_expenses :
        /\ p.id = tasks[t].pending_id
        /\ pending_expenses' = pending_expenses \ {p}

\* a pending row leaves the table only in a step that inserts its expense
C27_LeavesOpen ==
  \A p \in pending_expenses \ pending_expenses' :
    /\ pending_expenses \ pending_expenses' = {p}
    /\ \E e \in expenses' \ expenses :
         /\ expenses' = expenses \cup {e}
         /\ FromPending(e, p)
    /\ \E t \in Tasks :
         /\ tasks[t].pc = "commit"
         /\ tasks[t].pending_id = p.id
         /\ tasks'[t].expense_id # 0

\* C27: a successful resolution inserts exactly one expense, whose group, user,
\* amount, note, normalized note and audit fields (auto_category,
\* auto_subcategory, auto_confidence) are those stored in the pending row and
\* whose is_auto_applied is false, and deletes the pending row in the same
\* step; no pending row ever leaves the table without such an expense being
\* inserted in that step.
C27_ResolutionInsertsFromPending ==
  []C27_Inv /\ [][C27_Inserts /\ C27_DeletesPending /\ C27_LeavesOpen]_vars

\* C28: when the alias lookup returns a subcategory that is not a taxonomy key,
\* predict_category ignores it and scores the keywords: the answer is None when
\* no keyword occurs in the normalized note and otherwise a "rules" prediction
\* of a taxonomy subcategory with the greatest score; it is never an "alias"
\* prediction and never carries the unknown key.
C28_UnknownAliasIgnored ==
  (call_pc = "predicted" /\ call_alias # "" /\ call_alias \notin SubcategoryKeys) =>
    \E score \in {StatedScores(normalize_text(call_text))} :
      /\ call_prediction.reason \in {"rules", "none"}
      /\ call_prediction.subcategory # call_alias
      /\ (call_prediction = NoPrediction) <=> (DOMAIN score = {})
      /\ DOMAIN score # {} =>
           /\ call_prediction.reason = "rules"
           /\ call_prediction.subcategory = SUBCATEGORIES[BestOf(score)].key
           /\ call_prediction.category = SUBCATEGORIES[BestOf(score)].category
           /\ call_prediction.confidence \in 20..98

\* the note "такси" has been predicted with the alias "bogus", which is no
\* taxonomy key: the answer is the rules prediction transport_taxi
C28_Witness ==
  /\ call_pc = "predicted"
  /\ call_alias = "bogus"
  /\ call_text = Fragment_taksi
  /\ call_prediction = [category |-> "transport", subcategory |-> "transport_taxi",
                        confidence |-> 71, reason |-> "rules"]

\* the row of the quick-category path, whatever the alias table holds
QuickRow(group_id, user_id, parsed) ==
  [id |-> expense_seq + 1, group_id |-> group_id, user_id |-> user_id,
   category |-> parsed.quick_category, subcategory |-> "",
   amount |-> parsed.amount, note |-> parsed.note,
   auto_category |-> parsed.quick_category, auto_subcategory |-> "",
   auto_confidence |-> 100, is_auto_applied |-> FALSE,
   raw_comment_normalized |-> Normalized[parsed.note], spent_at |-> now_utc]

C29_Parse ==
  /\ Parsed[Text_450_eda_kofe] =
       [ok |-> TRUE, amount |-> 45000, quick_category |-> "food", note |-> Note_kofe]
  /\ Parsed[Text_450_eda] =
       [ok |-> TRUE, amount |-> 45000, quick_category |-> "food", note |-> <<>>]

C29_Step ==
  \A g \in Groups, u \in GateUsers, text \in GateTexts :
    \A parsed \in {Parsed[text]} :
      (/\ ProcessExpenseText(g, u, text)
       /\ parsed.ok
       /\ parsed.quick_category # "") =>
        \E row \in {QuickRow(g, u, parsed)} :
          /\ \A e \in expenses : e.id # row.id
          /\ expenses' = expenses \cup {row}
          /\ UNCHANGED <<pending_expenses, category_feedback, merchant_aliases>>

\* C29: a message whose first token besides the amount names a category stores
\* exactly one expense with that category, no subcategory, is_auto_applied
\* false, auto_category that category, no auto_subcategory and auto_confidence
\* 1.0; the row does not depend on the alias table, so an alias for the rest of
\* the note has no effect, and no pending row, feedback event or alias is
\* written.
C29_QuickCategory == []C29_Parse /\ [][C29_Step]_vars

\* "450 еда кофе" was stored as food without subcategory in a group whose alias
\* for "кофе" is transport_taxi
C29_Witness ==
  \E e \in expenses :
    /\ e.note = Note_kofe
    /\ e.category = "food"
    /\ e.subcategory = ""
    /\ e.auto_category = "food"
    /\ e.auto_confidence = 100
    /\ ~e.is_auto_applied
    /\ \E a \in merchant_aliases :
         /\ a.group_id = e.group_id
         /\ a.normalized_pattern = e.raw_comment_normalized
         /\ a.subcategory = "transport_taxi"

\* the group has an expense whose time falls on the local date of now in the
\* timezone of the group
SpentToday(rows, r, now) ==
  \E e \in rows :
    e.group_id = r.group_id /\ LocalDate(e.spent_at, r.timezone) = LocalDate(now, r.timezone)

\* reminders enabled, not marked for the local date, reminder time reached
ReminderPending(r, now) ==
  /\ r.reminder_enabled
  /\ r.last_reminder_date # LocalDate(now, r.timezone)
  /\ LocalMinute(now, r.timezone) >= r.reminder_time

\* a cycle of the worker starts: list_groups_due_for_reminder returns
C30_Step ==
  (due_groups = <<>> /\ UNCHANGED <<update_seq, now_utc>>) =>
    /\ \A i \in 1..Len(due_groups') :
         \E r \in group_settings :
           /\ r.group_id = due_groups'[i].group_id
           /\ ReminderPending(r, now_utc)
           /\ ~SpentToday(expenses, r, now_utc)
           /\ due_groups'[i].local_date = LocalDate(now_utc, r.timezone)
           /\ r \in group_settings'
    /\ \A r \in group_settings :
         (ReminderPending(r, now_utc) /\ SpentToday(expenses, r, now_utc)) =>
           /\ [r EXCEPT !.last_reminder_date = LocalDate(now_utc, r.timezone)]
                \in group_settings'
           /\ \A i \in 1..Len(due_groups') : due_groups'[i].group_id # r.group_id

\* C30: list_groups_due_for_reminder returns a group only if its reminders are
\* enabled, its last_reminder_date differs from its current local date, its
\* local time is at or after its reminder_time and it has no expense on that
\* local date; a group that meets the first three conditions and has an expense
\* that day is marked (last_reminder_date becomes the local date) and is not
\* returned.
C30_DueOnlyIfPending == [][C30_Step]_vars

\* a cycle has returned group 2, which has no expense today, and has marked
\* group 1, which has one
C30_Witness ==
  /\ Len(due_groups) = 1
  /\ due_groups[1].group_id = 2
  /\ \E r \in group_settings :
       /\ r.group_id = 1
       /\ r.reminder_enabled
       /\ LocalMinute(now_utc, r.timezone) >= r.reminder_time
       /\ SpentToday(expenses, r, now_utc)
       /\ r.last_reminder_date = LocalDate(now_utc, r.timezone)
  /\ \E r \in group_settings : r.group_id = 2 /\ ~SpentToday(expenses, r, now_utc)

\* C31: at most one reminder is sent to a group per local date: no two
\* reminders sent carry the same group and the same local date, whatever
\* messages, settings commands and clock steps come between them.
C31_OneReminderPerLocalDate ==
  \A i, j \in 1..Len(sent_reminders) :
    (i # j /\ sent_reminders[i].group_id = sent_reminders[j].group_id) =>
      sent_reminders[i].local_date # sent_reminders[j].local_date

\* the local dates of the run
ReminderDates == {LocalDate(t, tz) : t \in ReminderClockTimes, tz \in TimezoneNames}

\* the group is due for the date: it meets the conditions of the list now
DueFor(g, d) ==
  \E r \in group_settings :
    /\ r.group_id = g
    /\ LocalDate(now_utc, r.timezone) = d
    /\ ReminderPending(r, now_utc)
    /\ ~SpentToday(expenses, r, now_utc)

\* the reminder of the date has been sent to the group and the group is marked
RemindedFor(g, d) ==
  /\ \E i \in 1..Len(sent_reminders) :
       sent_reminders[i] = [group_id |-> g, local_date |-> d]
  /\ \E r \in group_settings : r.group_id = g /\ r.last_reminder_date = d

\* the worker goes on without having sent: the send raised
C32_SendFailed ==
  (due_groups # <<>> /\ due_groups' # due_groups /\ sent_reminders' = sent_reminders) =>
    /\ group_settings' = group_settings
    /\ due_groups' = Tail(due_groups)

\* the next cycle starts
C32_ListedAgain ==
  (due_groups = <<>> /\ UNCHANGED <<update_seq, now_utc>>) =>
    \A f \in failed_reminders :
      DueFor(f.group_id, f.local_date) =>
        \E i \in 1..Len(due_groups') : due_groups'[i] = f

\* C32: a send that fails leaves last_reminder_date (and every settings row) as
\* it was and the rest of the cycle's due groups are still processed; a group
\* whose send failed is returned again by the next cycle while it is still due;
\* and, the worker running on and the sends not failing for ever, a group whose
\* send failed for a date is eventually reminded and marked for that date,
\* unless it stops being due.
C32_FailedSendIsRetried ==
  /\ [][C32_SendFailed /\ C32_ListedAgain]_vars
  /\ \A g \in Groups, d \in ReminderDates :
       ([group_id |-> g, local_date |-> d] \in failed_reminders /\ DueFor(g, d))
         ~> (RemindedFor(g, d) \/ ~DueFor(g, d))

\* the send to group 1 failed, group 2 of the same cycle was reminded, and a
\* later cycle has reminded and marked group 1 for the same date
C32_Witness ==
  \E d \in ReminderDates :
    /\ [group_id |-> 1, local_date |-> d] \in failed_reminders
    /\ Len(sent_reminders) = 2
    /\ sent_reminders[1] = [group_id |-> 2, local_date |-> d]
    /\ sent_reminders[2] = [group_id |-> 1, local_date |-> d]
    /\ RemindedFor(1, d)
    /\ RemindedFor(2, d)

\* every threshold of [0, 1], in hundredths
ThresholdRange == 0..100

\* a message is stored: the row is the one that every threshold would store
C33_Step ==
  \A g \in Groups, u \in GateUsers, text \in GateTexts :
    \A parsed \in {Parsed[text]} :
      (ProcessExpenseText(g, u, text) /\ parsed.ok) =>
        \E normalized_note \in {Normalized[parsed.note]},
           prediction \in {MessagePrediction(merchant_aliases, g, parsed.note)} :
          /\ \E row \in expenses' \ expenses :
               /\ expenses' = expenses \cup {row}
               /\ \A threshold \in ThresholdRange :
                    row = MessageExpense(expense_seq + 1, threshold, g, u, parsed,
                                         normalized_note, prediction)
          /\ UNCHANGED <<pending_expenses, category_feedback, merchant_aliases,
                         pending_seq, auto_category_threshold>>

\* C33: for a fixed message, note and alias table the Expense that
\* process_expense_text stores (category, subcategory, audit fields,
\* is_auto_applied) is the same for every threshold of [0, 1], and nothing else
\* is stored: the threshold changes no stored state.
C33_ThresholdChangesNothing == [][C33_Step]_vars

\* a message whose prediction has a confidence below the threshold of the run
\* was stored by the fallback branch, with the predicted pair and as applied
C33_Witness ==
  \E e \in expenses :
    /\ e.auto_subcategory # ""
    /\ e.auto_confidence < auto_category_threshold
    /\ e.is_auto_applied
    /\ e.subcategory = e.auto_subcategory

\* C34: every FeedbackEvent written by the resolution path has
\* chosen_subcategory equal to predicted_subcategory, and neither is empty: a
\* resolution confirms the guess or the subcategory is dropped and nothing is
\* recorded, so no event records another leaf than the predicted one.
C34_FeedbackConfirmsGuess ==
  \A i \in 1..Len(category_feedback) :
    /\ category_feedback[i].chosen_subcategory = category_feedback[i].predicted_subcategory
    /\ category_feedback[i].predicted_subcategory # ""

\* a resolution that confirmed the guess food_out has recorded its event, and a
\* resolution that chose another category has finished and recorded none
C34_Witness ==
  /\ Len(category_feedback) = 1
  /\ category_feedback[1].chosen_subcategory = "food_out"
  /\ \E t \in Tasks :
       /\ tasks[t].pc = "done"
       /\ tasks[t].answer = "Saved"
       /\ tasks[t].chosen_subcategory = "food_out"
  /\ \E t \in Tasks :
       /\ tasks[t].pc = "done"
       /\ tasks[t].answer = "Saved"
       /\ tasks[t].category = "other"
       /\ tasks[t].pending.predicted_subcategory = "food_out"
       /\ tasks[t].chosen_subcategory = ""

\* the resolution attempts on a pending id that have written a FeedbackEvent:
\* they finalized, the guess was confirmed and the normalized note is not empty
FeedbackWriters(pending_id) ==
  {t \in Tasks :
     /\ tasks[t].pc = "done"
     /\ tasks[t].answer = "Saved"
     /\ tasks[t].pending_id = pending_id
     /\ Confirmed(tasks[t].pending, tasks[t].category)
     /\ tasks[t].pending.raw_comment_normalized # <<>>}

\* C35: each PendingDecision gives rise to at most one FeedbackEvent, under any
\* interleaving of the resolution attempts on it.
C35_OneFeedbackPerPending ==
  \A pending_id \in 1..pending_seq : Cardinality(FeedbackWriters(pending_id)) <= 1

\* the calls of undo_last_by_user that have returned an expense id
UndoSucceeded == {k \in UndoTasks : undo_tasks[k].pc = "done" /\ undo_tasks[k].expense_id # 0}

\* C36: under any interleaving of undo_last_by_user calls, the calls that
\* return an expense id report pairwise different ids and each has deleted an
\* expense itself: k calls that report success have removed exactly k expenses.
C36_EachUndoDeletesItsOwn ==
  /\ \A j \in UndoSucceeded, k \in UndoSucceeded :
       j # k => undo_tasks[j].expense_id # undo_tasks[k].expense_id
  /\ Cardinality(UndoSucceeded) = expense_seq - Cardinality(expenses)

\* C37: the lower clamp is never active for a rules prediction: the best score
\* is at least 1.0 and at least the second score, which is not negative, so
\* 0.55 + 0.12 * best - 0.07 * second is at least 0.60 and every rules
\* prediction has a confidence of at least 0.60 and at most 0.98.
C37_LowerClampInactive ==
  (call_pc = "predicted" /\ call_prediction.reason = "rules") =>
    \E score \in {StatedScores(normalize_text(call_text))} :
      \E best_score \in {score[BestOf(score)]}, second_score \in {SecondScore(score)} :
        /\ best_score >= 100
        /\ best_score >= second_score
        /\ second_score >= 0
        /\ 5500 + 12 * best_score - 7 * second_score >= 6000
        /\ call_prediction.confidence >= 60
        /\ call_prediction.confidence <= 98

\* the note "и круассан поездка" has been predicted: "поездка" of transport_taxi
\* and "поезд" of transport_public score 1.0 each, which gives the least
\* confidence, 0.55 + 0.12 - 0.07 = 0.60
C37_Witness ==
  /\ call_pc = "predicted"
  /\ call_alias = ""
  /\ call_text = Join(<<Fragment_i_kruassan, Fragment_poezdka>>)
  /\ call_prediction.reason = "rules"
  /\ call_prediction.confidence = 60
  /\ SecondScore(StatedScores(normalize_text(call_text))) = 100

\* an alias table that holds, besides its rows, a row with the empty pattern
WithEmptyPattern(aliases, group_id) ==
  aliases \cup {[group_id |-> group_id, normalized_pattern |-> <<>>,
                 subcategory |-> "food_out", confidence |-> 97, source |-> "feedback"]}

\* no feedback event and no alias row has the empty pattern, and the lookup of
\* the empty note answers none whatever the table holds
C38_Inv ==
  /\ \A i \in 1..Len(category_feedback) :
       category_feedback[i].raw_comment_normalized # <<>>
  /\ \A a \in merchant_aliases : a.normalized_pattern # <<>>
  /\ \A g \in Groups :
       /\ get_alias_subcategory(merchant_aliases, g, <<>>) = ""
       /\ get_alias_subcategory(WithEmptyPattern(merchant_aliases, g), g, <<>>) = ""

\* a message whose note normalizes to the empty text is stored without a
\* subcategory taken from an alias, whatever aliases its group has
C38_Step ==
  \A g \in Groups, u \in GateUsers, text \in GateTexts :
    \A parsed \in {Parsed[text]} :
      (/\ ProcessExpenseText(g, u, text)
       /\ parsed.ok
       /\ parsed.quick_category = ""
       /\ Normalized[parsed.note] = <<>>) =>
        \A e \in expenses' \ expenses :
          /\ e.subcategory = ""
          /\ e.auto_subcategory = ""
          /\ e.category = "other"
          /\ e.auto_confidence = 0

\* C38: in every reachable state no FeedbackEvent and no alias row has an empty
\* normalized pattern, and get_alias_subcategory with an empty normalized note
\* returns none without looking at the table; so an empty normalized note never
\* hits an alias.
C38_EmptyNoteHitsNoAlias == []C38_Inv /\ [][C38_Step]_vars

\* group 1 has learned an alias, calls of record_feedback with the empty text
\* could precede it, and a message of the group whose note "!!!" normalizes to
\* the empty text was stored as other, without a subcategory
C38_Witness ==
  /\ \E a \in merchant_aliases : a.group_id = 1
  /\ \E e \in expenses :
       /\ e.group_id = 1
       /\ e.note = Note_bangs
       /\ e.raw_comment_normalized = <<>>
       /\ e.category = "other"
       /\ e.auto_subcategory = ""
====
